---- MODULE Spec2Model ----
(***************************************************************************)
(* A model of the core of the Nanos6 (ArgoDSM cluster variant) runtime:    *)
(* the idle-CPU mechanism of DefaultCPUManagerImplementation, the ready    *)
(* queue of the unsynchronised scheduler, the event (release) counter of   *)
(* a task, the satisfiability propagation of the dependency engine and     *)
(* the start of the execute step of a task's workflow.                     *)
(*                                                                         *)
(* Each subsystem has its own variables and its own specification; the     *)
(* actions of one subsystem leave the variables of the others unchanged.   *)
(***************************************************************************)
EXTENDS Integers, Sequences, FiniteSets, TLC

(***************************************************************************)
(* Bounds of the model.                                                    *)
(***************************************************************************)
NumCPUs == 2
NumTasks == 3
MaxPriority == 1

CPUs == 0 .. (NumCPUs - 1)
Tasks == 1 .. NumTasks
Priorities == 0 .. MaxPriority
NoTask == 0
NoCPU == -1
NoOwner == -1

NumRelTasks == 2
NumRelThreads == 2
MaxEvents == 2

NumDepTasks == 3
NumDepWorkers == 2
NumExecTasks == 3
NumExecWorkers == 2

ExecTasks == 1 .. NumExecTasks
ExecWorkers == 1 .. NumExecWorkers
NoWorker == 0

NumLinkSteps == 2
NumCopySteps == 2
MaxFragments == 2
NumNodes == 3
MaxAccesses == 2
MaxAccessSize == 2
MaxTuning == 3
MaxStreak == 2
TuningDenominator == 2
ThisNode == 0
NoHome == -1
nanos6_cluster_no_offload == -1
RegionSize == 2
MaxReadPaths == 2
SizeBits == 8
NumSpawned == 3
NumTaskNew == 2
MaxArgs == 2
MaxSends == 3
MaxFetches == 2
NumSenderThreads == 2
MaxMessageType == 2
LowMessageId == 1
HighMessageId == 129
TagBits == 15
TypeBits == 8
DATA_RAW == 1
NumBlockTasks == 2
NumReleaseRegions == 2
NumNumaNodes == 3
MaxAddress == 4
MaxCopySize == 4
MessageMaxSize == 2
MaxRemoteTasks == 3
NumAvailableCPUs == 3
MaxSystemCPUId == 3
NoSystemCPUId == -1
MaxDirAddress == 3
PageSize == 2
MaxLiveAllocs == 2
MaxBatched == 1
NumTransfers == 3
MaxAllocSize == 4
MaxBlockSize == 2
HomeNotFound == 255
DirEnd == -1
NumFragAccesses == 3
MaxReleaseSize == 2
MaxBlocks == 2

LinkSteps == 1 .. NumLinkSteps
CopySteps == 1 .. NumCopySteps
Nodes == 0 .. (NumNodes - 1)
SizeModulus == 2 ^ SizeBits
Spawned == 1 .. NumSpawned
TaskNewMessages == 1 .. NumTaskNew
Args == 1 .. MaxArgs
SenderThreads == 1 .. NumSenderThreads
MessageTypes == (0 .. MaxMessageType) \ {DATA_RAW}
MessageIds == {LowMessageId, HighMessageId}
TagModulus == 2 ^ TagBits
TypeModulus == 2 ^ TypeBits
BlockTasks == 1 .. NumBlockTasks
ReleaseRegions == 1 .. NumReleaseRegions
NumaNodes == 0 .. (NumNumaNodes - 1)
Addresses == 0 .. MaxAddress
FragAccesses == 1 .. NumFragAccesses
Bitmasks == 0 .. (2 ^ NumNumaNodes - 1)
Wildcards == {"NUMA_ALL", "NUMA_ALL_ACTIVE", "NUMA_ANY_ACTIVE", "none of them"}
Communicators == {"INTRA_COMM", "INTRA_COMM_DATA_RAW"}

DepTasks == 1 .. NumDepTasks
DepWorkers == 1 .. NumDepWorkers
Regions == {"x", "y"}

RelTasks == 1 .. NumRelTasks
RelThreads == 1 .. NumRelThreads

VARIABLES
    \* ---- scheduler and CPU manager --------------------------------------
    readyTasks,               \* UnsyncScheduler::_readyTasks, in insertion order
    taskPriority,             \* Task priority of every task
    immediateSuccessorTasks,  \* UnsyncScheduler::_immediateSuccessorTasks
    enablePriority,           \* UnsyncScheduler::_enablePriority
    enableImmediateSuccessor, \* UnsyncScheduler::_enableImmediateSuccessor
    idleCPUs,                 \* DefaultCPUManagerImplementation::_idleCPUs
    numIdleCPUs,              \* DefaultCPUManagerImplementation::_numIdleCPUs
    idleCPUsLock,             \* owner of _idleCPUsLock, or NoOwner
    wpc,                      \* position of the worker bound to each CPU
    wtask,                    \* task the worker of each CPU is running
    epc,                      \* position of the thread that enqueues tasks
    ecpu,                     \* idle CPU that thread obtained
    taskStatus,               \* "created", "ready", "running" or "finished"
    lastPop,                  \* history: the task the ready queue handed out
                              \* last, and the queue it was taken from
    \* ---- release (event) counter of a task -------------------------------
    releaseCount,             \* Task::_countdownToRelease
    released,                 \* the flag markAsReleased sets
    pendingEvents,            \* events bound to the task and not yet fulfilled
    taskPhase,                \* "created", "running" or "returned" (the body)
    unregisterCount,          \* history: calls of unregisterTaskDataAccesses
    disposeCount,             \* history: calls of TaskFinalization::disposeTask
    zeroBy,                   \* history: which decrement reached zero
    rpc,                      \* position of each thread in the decrement
    rtask,                    \* task each thread is releasing
    \* ---- dependency engine ----------------------------------------------
    accesses,                 \* per region, the chain of DataAccess records
    dstate,                   \* life cycle of every task
    scoreboard,               \* commutative scoreboard: holder of each region
    commWaiters,              \* tasks waiting for the scoreboard, oldest first
    satisfiedOriginators,     \* CPUDependencyData::_satisfiedOriginators
    releasedCommutativeRegions, \* CPUDependencyData::_releasedCommutativeRegions
    dpc,                      \* position of each worker
    dtask,                    \* task each worker holds
    \* ---- execution workflow ---------------------------------------------
    estate,                   \* where every task is on its way to execution
    workflow,                 \* Task::getWorkflow() != nullptr
    executionStep,            \* Task::getExecutionStep()
    execCount,                \* how many times the body has been called
    route,                    \* how the body came to be called
    taskNew,                  \* TaskNew messages in flight
    taskFinished,             \* TaskFinished messages in flight
    xpc,                      \* position of each worker thread
    xtask,                    \* WorkerThread::getTask()
    \* ---- cluster data link steps ----------------------------------------
    lcreated,                 \* _read, _write: satisfiability at creation
    lpc,                      \* position of start() of each data link step
    lstarted,                 \* _started
    bytesToLink,              \* _bytesToLink
    lzero,                    \* the release brought the successor to zero
    ldeleteStep,              \* deleteStep of start()
    ldeleted,                 \* the step has deleted itself
    lused,                    \* the step was used after it deleted itself
    linkedKinds,              \* kinds of satisfiability linked so far
    readLinks,                \* linkRegion calls that carried read
    writeLinks,               \* linkRegion calls that carried write
    satInfo,                  \* ClusterExecutionStep::_satInfo
    execPending,              \* predecessors the execution step waits for
    execStarts,               \* calls of ClusterExecutionStep::start
    notifyPending,            \* predecessors the notification step waits for
    notifyStarts,             \* calls of ClusterNotificationStep::start
    remoteChannel,            \* the messages sent to the remote node, in order
    \* ---- cluster data copy steps ----------------------------------------
    needsTransfer,            \* _needsTransfer
    fragments,                \* ClusterManager::getMPIFragments(region)
    nFragments,               \* _nFragments
    writeIDLocal,             \* WriteIDManager::checkWriteIDLocal
    cpc,                      \* position of each data copy step
    cdeleted,                 \* the step has deleted itself
    creleases,                \* calls of releaseSuccessors of each step
    transfers,                \* PendingTransfers::_transfers
    \* ---- cluster schedulers ---------------------------------------------
    localityTuning,           \* argodsm.locality_tuning, in halves
    nextFtNode,               \* the node getNextFtNode returns next
    schedVia,                 \* the scheduler that took the last decision
    schedBytes,               \* bytes of the last task scheduled
    schedFtBytes,             \* ft_bytes of the last task scheduled
    schedOffloadable,         \* the last task scheduled is all in cluster memory
    schedFtNode,              \* nextFtNode when the last decision was taken
    schedNode,                \* the last decision
    schedTarget,              \* the node the last task scheduled runs on
    lowestStreak,             \* decisions in a row for the lowest tied node
    \* ---- execution steps of offloaded tasks -----------------------------
    stepReleases,             \* releaseSuccessors calls of the step of each task
    \* ---- spawned functions and TaskNew messages -------------------------
    spawnState,               \* where the task of each spawned function is
    argsBlock,                \* SpawnedFunctionArgsBlock of each spawned task
    spawnParent,              \* the parent each spawned task was submitted with
    spawnCreator,             \* the code that called spawnFunction for it
    functionCalls,            \* arguments of the calls of _function, in order
    completionCalls,          \* arguments of the calls of _completionCallback
    pendingSpawnedFunctions,  \* SpawnFunction::_pendingSpawnedFunctions
    msgState,                 \* where each TaskNew message is
    msgWrappers,              \* remoteTaskWrapper runs for each message
    msgFrees,                 \* deletes of each message
    \* ---- the MPI messenger, one sender and this node ---------------------
    mpiCommDataRaw,           \* MPIMessenger::_mpi_comm_data_raw
    commQueue,                \* sent and not yet received, by communicator
    postedRecvs,              \* the receives fetchData has posted: tag and message id
    sendCount,                \* sends so far
    fetchCount,               \* fetchData calls so far
    sentLog,                  \* the messages sendMessage sent, in order
    delivered,                \* what checkMail returned, in order
    fetched,                  \* what the receives of fetchData matched
    fetchedFor,               \* history: the message id each of them was posted for
    pendingMessages,          \* PendingQueue<Message> of the sender
    completedMessages,        \* messages marked as completed by the send
    lastMail,                 \* how the last checkMail ended
    \* ---- the blocking API ----------------------------------------------
    bstate,                   \* where each task is in block_current_task
    blockCalls,               \* nanos6_block_current_task calls of each task
    unblockCalls,             \* nanos6_unblock_task calls for each task
    blockReturns,             \* returns of nanos6_block_current_task
    resumeToken,              \* the thread of the task has been resumed early
    unblockedQueue,           \* what the unblocks added to the scheduler
    \* ---- the data release step of a remote task -------------------------
    raccess,                  \* the access of the remote task to each region
    rsize,                    \* the size of each region
    rtaskFinished,            \* Task::hasFinished of the remote task
    rmustWait,                \* the task delays its release and has children
    rreleased,                \* how each region was released, if it was
    releaseMessages,          \* RemoteAccessRelease messages sent, by region
    bytesToRelease,           \* DataReleaseStep::_bytesToRelease
    rdeleted,                 \* the step has deleted itself
    \* ---- NUMA bitmasks ---------------------------------------------------
    bitmaskNumaAll,           \* NUMAManager::_bitmaskNumaAll
    bitmaskNumaAllActive,     \* NUMAManager::_bitmaskNumaAllActive
    bitmaskNumaAnyActive,     \* NUMAManager::_bitmaskNumaAnyActive
    bitmask,                  \* the bitmask of the caller
    lastWildcard,             \* the wildcard of the last setWildcard
    numaDiagnostic,           \* what the last setWildcard reported
    \* ---- fragmentation of the accesses of one scope ----------------------
    accessRegion,             \* the region each access was registered with
    accessFragments,          \* the fragments of each access
    bottomMap,                \* the last access of every byte of the scope
    \* ---- the node namespace and its shutdown ----------------------------
    nsSingleton,              \* NodeNamespace::_singleton: "live" or "deleted"
    nsMustShutdown,           \* NodeNamespace::_mustShutdown
    nsBodyHasStarted,         \* NodeNamespace::_bodyHasStarted
    nsCounter,                \* the counter of NodeNamespace::_callback
    nsQueue,                  \* length of NodeNamespace::_queue
    nsRemoteTasks,            \* remote tasks created and not yet cleaned up
    nsArrivals,               \* TaskNew messages received so far
    nsBodyPc,                 \* position of the namespace task
    nsDeallocPc,              \* position of the thread in deallocate
    nsTouchedDeleted,         \* history: the counter of a deleted namespace was used
    \* ---- the idle CPUs of the CPU manager --------------------------------
    mgrSystemCPUId,           \* CPU::getSystemCPUId of _cpus[index]
    mgrGroupId,               \* CPU::getGroupId of _cpus[index]
    mgrIdleCPUs,              \* _idleCPUs, by virtual index
    mgrNumIdleCPUs,           \* _numIdleCPUs (size_t)
    mgrSuspended,             \* CPUs whose worker sleeps after cpuBecomesIdle
    mgrToResume,              \* CPUs handed out and not yet resumed
    mgrForced,                \* history: the last forcefullyResumeCPU and what it did
    \* ---- the NUMA directory ----------------------------------------------
    directory,                \* NUMAManager::_directory: the entries, each with its key
    allocations,              \* NUMAManager::_allocations
    liveAllocs,               \* history: the calls whose memory is not yet freed
    lastHome,                 \* history: the last getHomeNode and its result
    \* ---- the dependency data of one CPU ----------------------------------
    hpDependencyData,         \* CPUDependencyData: its seven lists
    \* ---- the pending data transfers and their polling service -----------
    ptTransfers,              \* PendingTransfers::_transfers
    ptState,                  \* each transfer: "none", "pending", "arrived" or "deleted"
    ptIncoming,               \* the transfer brings data to this node
    ptDeletes,                \* history: how many times each transfer was deleted
    ptRegistered              \* the polling service is registered

schedVars == <<readyTasks, taskPriority, immediateSuccessorTasks, enablePriority,
               enableImmediateSuccessor, idleCPUs, numIdleCPUs, idleCPUsLock,
               wpc, wtask, epc, ecpu, taskStatus, lastPop>>

relVars == <<releaseCount, released, pendingEvents, taskPhase, unregisterCount,
             disposeCount, zeroBy, rpc, rtask>>

depVars == <<accesses, dstate, scoreboard, commWaiters, satisfiedOriginators,
             releasedCommutativeRegions, dpc, dtask>>

execVars == <<estate, workflow, executionStep, execCount, route, taskNew,
              taskFinished, xpc, xtask>>

linkVars == <<lcreated, lpc, lstarted, bytesToLink, lzero, ldeleteStep, ldeleted, lused,
              linkedKinds, readLinks, writeLinks, satInfo, execPending, execStarts,
              notifyPending, notifyStarts, remoteChannel>>

fetchVars == <<needsTransfer, fragments, nFragments, writeIDLocal, cpc, cdeleted,
               creleases, transfers>>

locVars == <<localityTuning, nextFtNode, schedVia, schedBytes, schedFtBytes,
             schedOffloadable, schedFtNode, schedNode, schedTarget, lowestStreak>>

offloadVars == <<stepReleases>>

spawnVars == <<spawnState, argsBlock, spawnParent, spawnCreator, functionCalls,
               completionCalls, pendingSpawnedFunctions, msgState, msgWrappers,
               msgFrees>>

msgrVars == <<mpiCommDataRaw, commQueue, postedRecvs, sendCount, fetchCount, sentLog,
              delivered, fetched, fetchedFor, pendingMessages, completedMessages,
              lastMail>>

blockVars == <<bstate, blockCalls, unblockCalls, blockReturns, resumeToken,
               unblockedQueue>>

releaseVars == <<raccess, rsize, rtaskFinished, rmustWait, rreleased, releaseMessages,
                 bytesToRelease, rdeleted>>

numaVars == <<bitmaskNumaAll, bitmaskNumaAllActive, bitmaskNumaAnyActive, bitmask,
              lastWildcard, numaDiagnostic>>

fragVars == <<accessRegion, accessFragments, bottomMap>>

nsVars == <<nsSingleton, nsMustShutdown, nsBodyHasStarted, nsCounter, nsQueue,
            nsRemoteTasks, nsArrivals, nsBodyPc, nsDeallocPc, nsTouchedDeleted>>

mgrVars == <<mgrSystemCPUId, mgrGroupId, mgrIdleCPUs, mgrNumIdleCPUs, mgrSuspended,
             mgrToResume, mgrForced>>

dirVars == <<directory, allocations, liveAllocs, lastHome>>

cddVars == <<hpDependencyData>>

ptVars == <<ptTransfers, ptState, ptIncoming, ptDeletes, ptRegistered>>

lateVars == <<nsVars, mgrVars, dirVars, cddVars, ptVars>>

serviceVars == <<spawnVars, msgrVars, blockVars, releaseVars, numaVars, fragVars,
                 lateVars>>

clusterVars == <<linkVars, fetchVars, locVars, offloadVars, serviceVars>>

vars == <<schedVars, relVars, depVars, execVars, clusterVars>>

nonSchedVars == <<relVars, depVars, execVars, clusterVars>>
nonRelVars == <<schedVars, depVars, execVars, clusterVars>>
nonDepVars == <<schedVars, relVars, execVars, clusterVars>>
nonExecVars == <<schedVars, relVars, depVars, clusterVars>>
nonLinkVars == <<schedVars, relVars, depVars, execVars, fetchVars, locVars, offloadVars,
                 serviceVars>>
nonFetchVars == <<schedVars, relVars, depVars, execVars, linkVars, locVars, offloadVars,
                  serviceVars>>
nonLocVars == <<schedVars, relVars, depVars, execVars, linkVars, fetchVars, offloadVars,
                serviceVars>>
nonOffloadVars == <<schedVars, relVars, depVars, linkVars, fetchVars, locVars, serviceVars>>
coreVars == <<schedVars, relVars, depVars, execVars, linkVars, fetchVars, locVars,
              offloadVars>>
nonSpawnVars == <<coreVars, msgrVars, blockVars, releaseVars, numaVars, fragVars,
    lateVars>>
nonMsgrVars == <<coreVars, spawnVars, blockVars, releaseVars, numaVars, fragVars,
    lateVars>>
nonBlockVars == <<coreVars, spawnVars, msgrVars, releaseVars, numaVars, fragVars,
    lateVars>>
nonReleaseVars == <<coreVars, spawnVars, msgrVars, blockVars, numaVars, fragVars,
    lateVars>>
nonNumaVars == <<coreVars, spawnVars, msgrVars, blockVars, releaseVars, fragVars,
    lateVars>>
nonFragVars == <<coreVars, spawnVars, msgrVars, blockVars, releaseVars, numaVars,
    lateVars>>
earlyVars == <<coreVars, spawnVars, msgrVars, blockVars, releaseVars, numaVars, fragVars>>
nonNsVars == <<earlyVars, mgrVars, dirVars, cddVars, ptVars>>
nonMgrVars == <<earlyVars, nsVars, dirVars, cddVars, ptVars>>
nonDirVars == <<earlyVars, nsVars, mgrVars, cddVars, ptVars>>
nonCddVars == <<earlyVars, nsVars, mgrVars, dirVars, ptVars>>
nonPtVars == <<earlyVars, nsVars, mgrVars, dirVars, cddVars>>

(***************************************************************************)
(* The scheduler.                                                          *)
(***************************************************************************)

\* UnsyncScheduler's constructor: the kind of ready queue and the per-CPU
\* immediate successor slots, all empty.
UnsyncSchedulerInit ==
    /\ enablePriority \in BOOLEAN
    /\ enableImmediateSuccessor \in BOOLEAN
    /\ readyTasks = <<>>
    /\ immediateSuccessorTasks = [c \in CPUs |-> NoTask]

\* Remove the element at position i of a sequence.
RemoveAt(s, i) == [j \in 1 .. (Len(s) - 1) |-> IF j < i THEN s[j] ELSE s[j + 1]]

\* ReadyQueueDeque: the oldest task.
DequeFront(q) == 1

\* ReadyQueueMap: the oldest task among those of the greatest priority.
MapFront(q) ==
    CHOOSE i \in 1 .. Len(q) :
        /\ \A j \in 1 .. Len(q) : taskPriority[q[j]] <= taskPriority[q[i]]
        /\ \A j \in 1 .. (i - 1) : taskPriority[q[j]] < taskPriority[q[i]]

\* A mutant: the two kinds of ready queue are exchanged.
ReadyQueueFrontSwapped(q) == IF enablePriority THEN DequeFront(q) ELSE MapFront(q)

\* UnsyncScheduler's constructor chooses a ReadyQueueMap when priorities are
\* enabled and a ReadyQueueDeque otherwise: the position in the ready queue
\* of the task the queue hands out next.
ReadyQueueFront(q) == IF enablePriority THEN MapFront(q) ELSE DequeFront(q)

\* What getReadyTask(cpu) returns in the current state: the immediate
\* successor of that CPU, else the front of the ready queue, else nothing.
GetReadyTaskResult(cpu) ==
    IF immediateSuccessorTasks[cpu] # NoTask THEN immediateSuccessorTasks[cpu]
    ELSE IF Len(readyTasks) > 0 THEN readyTasks[ReadyQueueFront(readyTasks)]
    ELSE NoTask

\* A mutant: work in the immediate successor slot is not seen.
hasAvailableWorkQueueOnly(cpu) == Len(readyTasks) > 0

\* Scheduler::hasAvailableWork(cpu).
hasAvailableWork(cpu) ==
    \/ immediateSuccessorTasks[cpu] # NoTask
    \/ Len(readyTasks) > 0

(***************************************************************************)
(* The idle mechanism of the CPU manager.                                  *)
(***************************************************************************)

\* DefaultCPUManagerImplementation::preinitialize: no CPU is idle.
IdleInit ==
    /\ idleCPUs = [c \in CPUs |-> FALSE]
    /\ numIdleCPUs = 0
    /\ idleCPUsLock = NoOwner

\* boost::dynamic_bitset::find_first
find_first(bits) ==
    IF \E c \in CPUs : bits[c] THEN CHOOSE c \in CPUs : bits[c] /\ \A d \in CPUs : bits[d] => c <= d
    ELSE NoCPU

\* A task as constructed: its release counter counts the task itself.
RelInit ==
    /\ releaseCount = [t \in RelTasks |-> 1]
    /\ released = [t \in RelTasks |-> FALSE]
    /\ pendingEvents = [t \in RelTasks |-> 0]
    /\ taskPhase = [t \in RelTasks |-> "created"]
    /\ unregisterCount = [t \in RelTasks |-> 0]
    /\ disposeCount = [t \in RelTasks |-> 0]
    /\ zeroBy = [t \in RelTasks |-> "none"]
    /\ rpc = [th \in RelThreads |-> "idle"]
    /\ rtask = [th \in RelThreads |-> NoTask]

\* DataLinkStep's constructor: the bytes to link are twice the region, once
\* for read and once for write satisfiability.
DataLinkStepInit == 2 * RegionSize

\* The workflow of an offloaded task as constructed: one data link step
\* per access, created with the satisfiability the access has, all of them
\* predecessors of the execution step, which precedes the notification
\* step.
LinkInit ==
    /\ lcreated \in [LinkSteps -> [read : BOOLEAN, write : BOOLEAN]]
    /\ lpc = [s \in LinkSteps |-> "created"]
    /\ lstarted = [s \in LinkSteps |-> FALSE]
    /\ bytesToLink = [s \in LinkSteps |-> DataLinkStepInit]
    /\ lzero = [s \in LinkSteps |-> FALSE]
    /\ ldeleteStep = [s \in LinkSteps |-> FALSE]
    /\ ldeleted = [s \in LinkSteps |-> FALSE]
    /\ lused = [s \in LinkSteps |-> FALSE]
    /\ linkedKinds = [s \in LinkSteps |-> {}]
    /\ readLinks = [s \in LinkSteps |-> 0]
    /\ writeLinks = [s \in LinkSteps |-> 0]
    /\ satInfo = {}
    /\ execPending = NumLinkSteps
    /\ execStarts = 0
    /\ notifyPending = 1
    /\ notifyStarts = 0
    /\ remoteChannel = <<>>

\* The cluster layer with nothing going on but no choice left open either.
LinkQuiet == LinkInit /\ lcreated = [s \in LinkSteps |-> [read |-> TRUE, write |-> TRUE]]

\* The data copy steps of tasks offloaded to this node, one per task, all
\* for the same region: each is created with what its access needs and
\* with the number of messages its region takes. The queue of pending
\* transfers may hold an outgoing transfer of the region.
OutgoingTransfer == [owner |-> NoTask, incoming |-> FALSE, whole |-> TRUE, callbacks |-> {}]

\* ClusterDataCopyStep's constructor: the loop that cuts the region into
\* fragments of at most the maximum message size; the fragments it makes.
RECURSIVE RegionFragments(_, _)
RegionFragments(start, end) ==
    IF start < end THEN 1 + RegionFragments(start + MessageMaxSize, end) ELSE 0

\* ClusterManager::getMPIFragments: the fragments a region of a size needs.
getMPIFragments(size) == (size + MessageMaxSize - 1) \div MessageMaxSize

FetchInit ==
    /\ needsTransfer \in [CopySteps -> BOOLEAN]
    /\ \E size \in [CopySteps -> 1 .. MaxCopySize] :
          /\ fragments = [s \in CopySteps |-> RegionFragments(0, size[s])]
          /\ nFragments = [s \in CopySteps |-> getMPIFragments(size[s])]
    /\ writeIDLocal \in BOOLEAN
    /\ cpc = [s \in CopySteps |-> "created"]
    /\ cdeleted = [s \in CopySteps |-> FALSE]
    /\ creleases = [s \in CopySteps |-> 0]
    /\ transfers \in {<<>>, <<OutgoingTransfer>>}

FetchQuiet ==
    /\ FetchInit
    /\ needsTransfer = [s \in CopySteps |-> FALSE]
    /\ fragments = [s \in CopySteps |-> 1]
    /\ writeIDLocal = FALSE
    /\ transfers = <<>>

\* No task has been scheduled by a cluster scheduler; the tuning is what
\* the configuration says.
LocalityInit ==
    /\ localityTuning \in 0 .. MaxTuning
    /\ nextFtNode = 0
    /\ schedVia = "none"
    /\ schedBytes = [n \in Nodes |-> 0]
    /\ schedFtBytes = 0
    /\ schedOffloadable = FALSE
    /\ schedFtNode = 0
    /\ schedNode = nanos6_cluster_no_offload
    /\ schedTarget = ThisNode
    /\ lowestStreak = 0

LocalityQuiet == LocalityInit /\ localityTuning = TuningDenominator

\* No execution step of an offloaded task has released its successors.
OffloadInit == stepReleases = [t \in ExecTasks |-> 0]

\* No function has been spawned and no TaskNew message has been sent.
SpawnInit ==
    /\ spawnState = [s \in Spawned |-> "none"]
    /\ argsBlock = [s \in Spawned |->
          [function |-> "nullptr", args |-> 0,
           completionCallback |-> "nullptr", completionArgs |-> 0]]
    /\ spawnParent = [s \in Spawned |-> "unset"]
    /\ spawnCreator = [s \in Spawned |-> "none"]
    /\ functionCalls = [s \in Spawned |-> <<>>]
    /\ completionCalls = [s \in Spawned |-> <<>>]
    /\ pendingSpawnedFunctions = 0
    /\ msgState = [m \in TaskNewMessages |-> "unsent"]
    /\ msgWrappers = [m \in TaskNewMessages |-> 0]
    /\ msgFrees = [m \in TaskNewMessages |-> 0]

\* MPIMessenger::MPIMessenger: nothing has been sent; the data has a
\* communicator of its own if the configuration says so.
MessengerInit ==
    /\ mpiCommDataRaw \in BOOLEAN
    /\ commQueue = [c \in Communicators |-> <<>>]
    /\ postedRecvs = <<>>
    /\ sendCount = 0
    /\ fetchCount = 0
    /\ sentLog = <<>>
    /\ delivered = <<>>
    /\ fetched = <<>>
    /\ fetchedFor = <<>>
    /\ pendingMessages = {}
    /\ completedMessages = {}
    /\ lastMail = "none"

MessengerQuiet == MessengerInit /\ ~mpiCommDataRaw

\* Every task runs its body and has never blocked.
BlockInit ==
    /\ bstate = [t \in BlockTasks |-> "running"]
    /\ blockCalls = [t \in BlockTasks |-> 0]
    /\ unblockCalls = [t \in BlockTasks |-> 0]
    /\ blockReturns = [t \in BlockTasks |-> 0]
    /\ resumeToken = [t \in BlockTasks |-> FALSE]
    /\ unblockedQueue = <<>>

RECURSIVE SumSizes(_, _)
SumSizes(size, n) == IF n = 0 THEN 0 ELSE size[n] + SumSizes(size, n - 1)

\* ClusterDataReleaseStep of a remote task that runs: addAccess has counted
\* the bytes of every access; no access is satisfied or complete yet.
ReleaseInit ==
    /\ raccess \in [ReleaseRegions ->
          [readSatisfied : {FALSE}, writeSatisfied : {FALSE}, complete : {FALSE},
           hasNext : {FALSE}, hasSubaccesses : BOOLEAN]]
    /\ rsize \in [ReleaseRegions -> 1 .. MaxReleaseSize]
    /\ rtaskFinished = FALSE
    /\ rmustWait \in BOOLEAN
    /\ rreleased = [r \in ReleaseRegions |-> "no"]
    /\ releaseMessages = [r \in ReleaseRegions |-> 0]
    /\ bytesToRelease = SumSizes(rsize, NumReleaseRegions)
    /\ rdeleted = FALSE

ReleaseQuiet ==
    /\ ReleaseInit
    /\ raccess = [r \in ReleaseRegions |->
          [readSatisfied |-> FALSE, writeSatisfied |-> FALSE, complete |-> FALSE,
           hasNext |-> FALSE, hasSubaccesses |-> FALSE]]
    /\ rsize = [r \in ReleaseRegions |-> 1]
    /\ ~rmustWait

\* BitManipulation::checkBit
checkBit(x, bitIndex) == (x \div (2 ^ bitIndex)) % 2

\* BitManipulation::enableBit
enableBit(x, bitIndex) == IF checkBit(x, bitIndex) = 1 THEN x ELSE x + 2 ^ bitIndex

\* BitManipulation::disableBit
disableBit(x, bitIndex) == IF checkBit(x, bitIndex) = 1 THEN x - 2 ^ bitIndex ELSE x

\* NUMAManager::initialize: a bit for every node in NUMA_ALL, for the nodes
\* with a CPU of the process in NUMA_ANY_ACTIVE, and for those of them with
\* all their CPUs in the process in NUMA_ALL_ACTIVE.
NumaInit ==
    /\ bitmaskNumaAll = 2 ^ NumNumaNodes - 1
    /\ bitmaskNumaAnyActive \in Bitmasks
    /\ bitmaskNumaAllActive \in
          {b \in Bitmasks : \A n \in NumaNodes :
              checkBit(b, n) = 1 => checkBit(bitmaskNumaAnyActive, n) = 1}
    /\ bitmask = 0
    /\ lastWildcard = "NUMA_ALL"
    /\ numaDiagnostic = "none"

NumaQuiet ==
    /\ NumaInit
    /\ bitmaskNumaAnyActive = bitmaskNumaAll
    /\ bitmaskNumaAllActive = bitmaskNumaAll

\* No access has been registered in the scope.
FragInit ==
    /\ accessRegion = [a \in FragAccesses |-> [start |-> 0, end |-> 0]]
    /\ accessFragments = [a \in FragAccesses |-> {}]
    /\ bottomMap = {}

\* NodeNamespace::init has run: the singleton exists, its task is submitted
\* and holds one count of the callback; nothing has arrived.
NamespaceInit ==
    /\ nsSingleton = "live"
    /\ nsMustShutdown = FALSE
    /\ nsBodyHasStarted = FALSE
    /\ nsCounter = 1
    /\ nsQueue = 0
    /\ nsRemoteTasks = 0
    /\ nsArrivals = 0
    /\ nsBodyPc = "submitted"
    /\ nsDeallocPc = "idle"
    /\ nsTouchedDeleted = FALSE

VirtualCPUs == 0 .. (NumAvailableCPUs - 1)
SystemCPUIds == 0 .. MaxSystemCPUId

\* The loop of preinitialize that gives every CPU of the mask its group:
\* the group of the CPU with the given index, the loop being at CPU i.
RECURSIVE TaskforGroup(_, _, _, _, _)
TaskforGroup(index, i, groupId, numCPUsPerTaskforGroup, numGroups) ==
    LET next == IF numCPUsPerTaskforGroup = 0 THEN groupId + 1 ELSE groupId
        left == IF numCPUsPerTaskforGroup = 0
                THEN (NumAvailableCPUs \div numGroups) - 1
                ELSE numCPUsPerTaskforGroup - 1
    IN  IF i = index THEN next
        ELSE TaskforGroup(index, i + 1, next, left, numGroups)

\* DefaultCPUManagerImplementation::preinitialize: the CPUs of the mask
\* get the virtual indexes in the order of their system ids, no CPU is
\* idle; initialize: every CPU has a running worker.
CPUManagerInit ==
    /\ mgrSystemCPUId \in {f \in [VirtualCPUs -> SystemCPUIds] :
                              \A u, v \in VirtualCPUs : u < v => f[u] < f[v]}
    /\ \E numGroups \in {1, NumAvailableCPUs} :
          mgrGroupId = [v \in VirtualCPUs |->
                           TaskforGroup(v, 0, 0, NumAvailableCPUs \div numGroups, numGroups)]
    /\ mgrIdleCPUs = [v \in VirtualCPUs |-> FALSE]
    /\ mgrNumIdleCPUs = 0
    /\ mgrSuspended = {}
    /\ mgrToResume = {}
    /\ mgrForced = [id |-> NoSystemCPUId, named |-> FALSE, resumed |-> {}, wild |-> FALSE]

CPUManagerQuiet ==
    /\ CPUManagerInit
    /\ mgrSystemCPUId = [v \in VirtualCPUs |-> v]
    /\ mgrGroupId = [v \in VirtualCPUs |-> 0]

\* Nothing has been allocated and no home node has been asked for.
DirectoryInit ==
    /\ directory = {}
    /\ allocations = {}
    /\ liveAllocs = {}
    /\ lastHome = [ptr |-> 0, size |-> 0, result |-> HomeNotFound]

\* The lists of CPUDependencyData.
DependencyDataLists ==
    {"_satisfiedOriginators", "_satisfiedCommutativeOriginators", "_delayedOperations",
     "_removableTasks", "_acquiredCommutativeScoreboardEntries",
     "_releasedCommutativeRegions", "_completedTaskwaits"}

\* CPUDependencyData::CPUDependencyData: every list is constructed empty.
DependencyDataInit == hpDependencyData = [list \in DependencyDataLists |-> <<>>]

DataTransfers == 1 .. NumTransfers

\* registerDataTransferCompletion has run and no transfer was requested.
PendingTransfersInit ==
    /\ ptTransfers = <<>>
    /\ ptState = [dt \in DataTransfers |-> "none"]
    /\ ptIncoming = [dt \in DataTransfers |-> FALSE]
    /\ ptDeletes = [dt \in DataTransfers |-> 0]
    /\ ptRegistered = TRUE

LateQuiet ==
    /\ NamespaceInit /\ CPUManagerQuiet /\ DirectoryInit /\ DependencyDataInit
    /\ PendingTransfersInit

ServiceInit ==
    SpawnInit /\ MessengerQuiet /\ BlockInit /\ ReleaseQuiet /\ NumaQuiet /\ FragInit
    /\ LateQuiet

ClusterInit == LinkQuiet /\ FetchQuiet /\ LocalityQuiet /\ OffloadInit /\ ServiceInit

\* No task has been submitted: no workflow, no execution step, no message
\* in flight, every worker thread without a task.
ExecInit ==
    /\ estate = [t \in ExecTasks |-> "created"]
    /\ workflow = [t \in ExecTasks |-> FALSE]
    /\ executionStep = [t \in ExecTasks |-> "none"]
    /\ execCount = [t \in ExecTasks |-> 0]
    /\ route = [t \in ExecTasks |-> "none"]
    /\ taskNew = {}
    /\ taskFinished = {}
    /\ xpc = [w \in ExecWorkers |-> "idle"]
    /\ xtask = [w \in ExecWorkers |-> NoTask]

\* No task has been created: no access is registered, the scoreboard is
\* free, the dependency data of every CPU is empty.
DepInit ==
    /\ accesses = [r \in Regions |-> <<>>]
    /\ dstate = [t \in DepTasks |-> "created"]
    /\ scoreboard = [r \in Regions |-> NoTask]
    /\ commWaiters = <<>>
    /\ satisfiedOriginators = [w \in DepWorkers |-> {}]
    /\ releasedCommutativeRegions = [w \in DepWorkers |-> {}]
    /\ dpc = [w \in DepWorkers |-> "idle"]
    /\ dtask = [w \in DepWorkers |-> NoTask]

SchedInit ==
    /\ UnsyncSchedulerInit
    /\ IdleInit
    /\ taskPriority = [t \in Tasks |-> 0]
    /\ wpc = [c \in CPUs |-> "poll"]
    /\ wtask = [c \in CPUs |-> NoTask]
    /\ epc = "idle"
    /\ ecpu = NoCPU
    /\ taskStatus = [t \in Tasks |-> "created"]
    /\ lastPop = [task |-> NoTask, queue |-> <<>>]

\* Tasks are interchangeable: they become ready in the order of their
\* identifiers, so a smaller identifier means an earlier addReadyTask.
NextCreated ==
    IF \E t \in Tasks : taskStatus[t] = "created"
    THEN CHOOSE t \in Tasks : taskStatus[t] = "created" /\ \A u \in Tasks : taskStatus[u] = "created" => t <= u
    ELSE NoTask

\* The worker of a CPU asks the scheduler for a task: it runs the task it
\* gets, and calls cpuBecomesIdle when it gets none.
WorkerGetReadyTask(c) ==
    /\ wpc[c] = "poll"
    /\ LET t == GetReadyTaskResult(c) IN
        IF t = NoTask
        THEN /\ wpc' = [wpc EXCEPT ![c] = "idle_lock"]
             /\ UNCHANGED <<readyTasks, immediateSuccessorTasks, wtask, taskStatus, lastPop>>
        ELSE /\ IF immediateSuccessorTasks[c] # NoTask
                THEN /\ immediateSuccessorTasks' = [immediateSuccessorTasks EXCEPT ![c] = NoTask]
                     /\ UNCHANGED <<readyTasks, lastPop>>
                ELSE /\ readyTasks' = RemoveAt(readyTasks, ReadyQueueFront(readyTasks))
                     /\ lastPop' = [task |-> t, queue |-> readyTasks]
                     /\ UNCHANGED immediateSuccessorTasks
             /\ wtask' = [wtask EXCEPT ![c] = t]
             /\ taskStatus' = [taskStatus EXCEPT ![t] = "running"]
             /\ wpc' = [wpc EXCEPT ![c] = "run"]
    /\ UNCHANGED <<taskPriority, enablePriority, enableImmediateSuccessor, idleCPUs,
                   numIdleCPUs, idleCPUsLock, epc, ecpu>>
    /\ UNCHANGED nonSchedVars

\* The body of the task returns. The task may release one successor, which
\* the worker leaves in the immediate successor slot of its own CPU.
WorkerFinishTask(c) ==
    /\ wpc[c] = "run"
    /\ taskStatus' = [taskStatus EXCEPT ![wtask[c]] = "finished"]
    /\ wtask' = [wtask EXCEPT ![c] = NoTask]
    /\ wpc' = [wpc EXCEPT ![c] = "poll"]
    /\ UNCHANGED <<readyTasks, taskPriority, immediateSuccessorTasks, enablePriority,
                   enableImmediateSuccessor, idleCPUs, numIdleCPUs, idleCPUsLock,
                   epc, ecpu, lastPop>>
    /\ UNCHANGED nonSchedVars

WorkerFinishTaskWithSuccessor(c, s, p) ==
    /\ wpc[c] = "run"
    /\ enableImmediateSuccessor
    /\ s = NextCreated
    /\ taskStatus' = [taskStatus EXCEPT ![wtask[c]] = "finished", ![s] = "ready"]
    /\ taskPriority' = [taskPriority EXCEPT ![s] = p]
    /\ immediateSuccessorTasks' = [immediateSuccessorTasks EXCEPT ![c] = s]
    /\ wtask' = [wtask EXCEPT ![c] = NoTask]
    /\ wpc' = [wpc EXCEPT ![c] = "poll"]
    /\ UNCHANGED <<readyTasks, enablePriority, enableImmediateSuccessor, idleCPUs,
                   numIdleCPUs, idleCPUsLock, epc, ecpu, lastPop>>
    /\ UNCHANGED nonSchedVars

\* cpuBecomesIdle, line 215: _idleCPUsLock.lock()
cpuBecomesIdle_Lock(c) ==
    /\ wpc[c] = "idle_lock"
    /\ idleCPUsLock = NoOwner
    /\ idleCPUsLock' = c
    /\ wpc' = [wpc EXCEPT ![c] = "idle_check"]
    /\ UNCHANGED <<readyTasks, taskPriority, immediateSuccessorTasks, enablePriority,
                   enableImmediateSuccessor, idleCPUs, numIdleCPUs, wtask, epc, ecpu,
                   taskStatus, lastPop>>
    /\ UNCHANGED nonSchedVars

\* A mutant: the CPU is idled without looking at the scheduler again.
cpuBecomesIdle_CheckNothing(c) ==
    /\ wpc[c] = "idle_check"
    /\ wpc' = [wpc EXCEPT ![c] = "idle_mark"]
    /\ UNCHANGED <<readyTasks, taskPriority, immediateSuccessorTasks, enablePriority,
                   enableImmediateSuccessor, idleCPUs, numIdleCPUs, idleCPUsLock, wtask,
                   epc, ecpu, taskStatus, lastPop>>
    /\ UNCHANGED nonSchedVars

\* cpuBecomesIdle, lines 222-227: with the lock held, if the scheduler has
\* work the lock is released and the call returns false.
cpuBecomesIdle_Check(c) ==
    /\ wpc[c] = "idle_check"
    /\ IF hasAvailableWork(c)
       THEN /\ idleCPUsLock' = NoOwner
            /\ wpc' = [wpc EXCEPT ![c] = "poll"]
       ELSE /\ wpc' = [wpc EXCEPT ![c] = "idle_mark"]
            /\ UNCHANGED idleCPUsLock
    /\ UNCHANGED <<readyTasks, taskPriority, immediateSuccessorTasks, enablePriority,
                   enableImmediateSuccessor, idleCPUs, numIdleCPUs, wtask, epc, ecpu,
                   taskStatus, lastPop>>
    /\ UNCHANGED nonSchedVars

\* cpuBecomesIdle, lines 229-238: the CPU is marked idle, the lock is
\* released and the call returns true; the worker parks.
cpuBecomesIdle_Mark(c) ==
    /\ wpc[c] = "idle_mark"
    /\ idleCPUs' = [idleCPUs EXCEPT ![c] = TRUE]
    /\ numIdleCPUs' = numIdleCPUs + 1
    /\ idleCPUsLock' = NoOwner
    /\ wpc' = [wpc EXCEPT ![c] = "parked"]
    /\ UNCHANGED <<readyTasks, taskPriority, immediateSuccessorTasks, enablePriority,
                   enableImmediateSuccessor, wtask, epc, ecpu, taskStatus, lastPop>>
    /\ UNCHANGED nonSchedVars

\* Scheduler::addReadyTask from a thread that is not a worker: the task
\* enters the ready queue behind the tasks it holds.
AddReadyTask(t, p) ==
    /\ epc = "idle"
    /\ t = NextCreated
    /\ readyTasks' = Append(readyTasks, t)
    /\ taskPriority' = [taskPriority EXCEPT ![t] = p]
    /\ taskStatus' = [taskStatus EXCEPT ![t] = "ready"]
    /\ epc' = "added"
    /\ UNCHANGED <<lastPop, immediateSuccessorTasks, enablePriority, enableImmediateSuccessor,
                   idleCPUs, numIdleCPUs, idleCPUsLock, wpc, wtask, ecpu>>
    /\ UNCHANGED nonSchedVars

\* A mutant: getIdleCPU finds no idle CPU, whatever the bitmap holds.
getIdleCPUNone ==
    /\ epc = "added"
    /\ idleCPUsLock = NoOwner
    /\ epc' = "idle"
    /\ UNCHANGED <<readyTasks, taskPriority, immediateSuccessorTasks, enablePriority,
                   enableImmediateSuccessor, idleCPUs, numIdleCPUs, idleCPUsLock, wpc,
                   wtask, ecpu, taskStatus, lastPop>>
    /\ UNCHANGED nonSchedVars

\* getIdleCPU, the whole call under _idleCPUsLock: the first idle CPU, no
\* longer marked idle, or none.
getIdleCPU ==
    /\ epc = "added"
    /\ idleCPUsLock = NoOwner
    /\ LET id == find_first(idleCPUs) IN
        IF id # NoCPU
        THEN /\ idleCPUs' = [idleCPUs EXCEPT ![id] = FALSE]
             /\ numIdleCPUs' = numIdleCPUs - 1
             /\ ecpu' = id
             /\ epc' = "resume"
        ELSE /\ epc' = "idle"
             /\ UNCHANGED <<idleCPUs, numIdleCPUs, ecpu>>
    /\ UNCHANGED <<readyTasks, taskPriority, immediateSuccessorTasks, enablePriority,
                   enableImmediateSuccessor, idleCPUsLock, wpc, wtask, taskStatus, lastPop>>
    /\ UNCHANGED nonSchedVars

\* ThreadManager::resumeIdle: an idle thread (a recycled one or a new one)
\* is resumed on the CPU and asks the scheduler for work.
resumeIdle ==
    /\ epc = "resume"
    /\ wpc' = [wpc EXCEPT ![ecpu] = "poll"]
    /\ ecpu' = NoCPU
    /\ epc' = "idle"
    /\ UNCHANGED <<readyTasks, taskPriority, immediateSuccessorTasks, enablePriority,
                   enableImmediateSuccessor, idleCPUs, numIdleCPUs, idleCPUsLock, wtask,
                   taskStatus, lastPop>>
    /\ UNCHANGED nonSchedVars

SchedNext ==
    \/ \E c \in CPUs : WorkerGetReadyTask(c)
    \/ \E c \in CPUs : WorkerFinishTask(c)
    \/ \E c \in CPUs, s \in Tasks, p \in Priorities : WorkerFinishTaskWithSuccessor(c, s, p)
    \/ \E c \in CPUs : cpuBecomesIdle_Lock(c)
    \/ \E c \in CPUs : cpuBecomesIdle_Check(c)
    \/ \E c \in CPUs : cpuBecomesIdle_Mark(c)
    \/ \E t \in Tasks, p \in Priorities : AddReadyTask(t, p)
    \/ getIdleCPU
    \/ resumeIdle

SpecSchedInit == SchedInit /\ RelInit /\ DepInit /\ ExecInit /\ ClusterInit

SpecSched == SpecSchedInit /\ [][SchedNext]_vars

\* The threads are kernel threads under a preemptive scheduler: a worker or
\* an enqueuing thread that can take its next step eventually takes it.
\* Nothing obliges the application to add tasks.
SchedFairness ==
    /\ \A c \in CPUs : WF_vars(WorkerGetReadyTask(c))
    /\ \A c \in CPUs : WF_vars(WorkerFinishTask(c))
    /\ \A c \in CPUs : WF_vars(cpuBecomesIdle_Lock(c))
    /\ \A c \in CPUs : WF_vars(cpuBecomesIdle_Check(c))
    /\ \A c \in CPUs : WF_vars(cpuBecomesIdle_Mark(c))
    /\ WF_vars(getIdleCPU)
    /\ WF_vars(resumeIdle)

\* Independent tasks: no task releases a successor when it finishes, all
\* the tasks come from the enqueuing thread.
IndependentInit == SchedInit /\ ~enableImmediateSuccessor /\ RelInit /\ DepInit /\ ExecInit /\ ClusterInit

IndependentNext ==
    \/ \E c \in CPUs : WorkerGetReadyTask(c)
    \/ \E c \in CPUs : WorkerFinishTask(c)
    \/ \E c \in CPUs : cpuBecomesIdle_Lock(c)
    \/ \E c \in CPUs : cpuBecomesIdle_Check(c)
    \/ \E c \in CPUs : cpuBecomesIdle_Mark(c)
    \/ \E t \in Tasks, p \in Priorities : AddReadyTask(t, p)
    \/ getIdleCPU
    \/ resumeIdle

SpecSchedFair == IndependentInit /\ [][IndependentNext]_vars /\ SchedFairness

(***************************************************************************)
(* Claims about the scheduler and the idle mechanism.                      *)
(***************************************************************************)

\* C1: idle race. Whenever a task is queued and the enqueuing thread has
\* finished its addReadyTask / getIdleCPU / resumeIdle sequence, some worker
\* is still going to ask the scheduler for work: it is running a task, about
\* to poll, or inside cpuBecomesIdle before the check that will see the
\* task. No task stays queued with every CPU marked idle and nobody
\* resuming one.
NoLostWakeUp ==
    (Len(readyTasks) > 0 /\ epc = "idle") =>
        /\ \E c \in CPUs : wpc[c] \in {"poll", "run", "idle_lock", "idle_check"}
        /\ \E c \in CPUs : ~idleCPUs[c]

\* The race of C1: a worker found the scheduler empty and is inside
\* cpuBecomesIdle, holding the lock, when a task has just been enqueued.
IdleRaceHappens ==
    \E c \in CPUs :
        /\ wpc[c] = "idle_check"
        /\ Len(readyTasks) > 0
        /\ epc = "added"

\* C7: progress. Every task that has been handed to the scheduler
\* eventually finishes.
AllReadyTasksFinish ==
    \A t \in Tasks : (taskStatus[t] = "ready") ~> (taskStatus[t] = "finished")

\* All the tasks have finished, one of them at least came out of the ready
\* queue, and every CPU is idle again.
AllFinishedAfterIdle ==
    /\ \A t \in Tasks : taskStatus[t] = "finished"
    /\ lastPop.task # NoTask
    /\ \A c \in CPUs : idleCPUs[c]

EnqueuedBefore(t, u) == t < u

\* Tasks of a queue.
QueueTasks(q) == {q[i] : i \in 1 .. Len(q)}

SchedQuiet == SchedInit /\ ~enablePriority /\ ~enableImmediateSuccessor

\* Task::increaseReleaseCount
increaseReleaseCount(count, amount) == count + amount

\* Task::decreaseReleaseCount: the new value; the call returns true when it
\* is zero.
decreaseReleaseCount(count, amount) == count - amount

\* A worker starts the body of the task.
StartBody(t) ==
    /\ taskPhase[t] = "created"
    /\ taskPhase' = [taskPhase EXCEPT ![t] = "running"]
    /\ UNCHANGED <<releaseCount, released, pendingEvents, unregisterCount, disposeCount,
                   zeroBy, rpc, rtask>>
    /\ UNCHANGED nonRelVars

\* nanos6_increase_current_task_event_counter, called by the body of the
\* task on its own event counter.
nanos6_increase_current_task_event_counter(t, increment) ==
    /\ taskPhase[t] = "running"
    /\ increment > 0
    /\ pendingEvents[t] + increment <= MaxEvents
    /\ releaseCount' = [releaseCount EXCEPT ![t] = increaseReleaseCount(@, increment)]
    /\ pendingEvents' = [pendingEvents EXCEPT ![t] = @ + increment]
    /\ UNCHANGED <<released, taskPhase, unregisterCount, disposeCount, zeroBy, rpc, rtask>>
    /\ UNCHANGED nonRelVars

\* A mutant: the dependencies are released whatever the counter has become.
DecreaseAndTestAlwaysZero(th, t, decrement, who) ==
    /\ rpc[th] = "idle"
    /\ releaseCount' = [releaseCount EXCEPT ![t] = decreaseReleaseCount(@, decrement)]
    /\ zeroBy' = [zeroBy EXCEPT ![t] = who]
    /\ rpc' = [rpc EXCEPT ![th] = "unregister"]
    /\ rtask' = [rtask EXCEPT ![th] = t]

\* nanos6_decrease_task_event_counter, line 53: the counter is decreased
\* atomically, and the thread goes on to release the dependencies only if
\* the counter has become zero.
DecreaseAndTest(th, t, decrement, who) ==
    /\ rpc[th] = "idle"
    /\ releaseCount' = [releaseCount EXCEPT ![t] = decreaseReleaseCount(@, decrement)]
    /\ IF decreaseReleaseCount(releaseCount[t], decrement) = 0
       THEN /\ zeroBy' = [zeroBy EXCEPT ![t] = who]
            /\ rpc' = [rpc EXCEPT ![th] = "unregister"]
            /\ rtask' = [rtask EXCEPT ![th] = t]
       ELSE UNCHANGED <<zeroBy, rpc, rtask>>

\* The body of the task returns and the worker gives up the count the task
\* holds on itself.
BodyReturns(th, t) ==
    /\ taskPhase[t] = "running"
    /\ taskPhase' = [taskPhase EXCEPT ![t] = "returned"]
    /\ DecreaseAndTest(th, t, 1, "body")
    /\ UNCHANGED <<released, pendingEvents, unregisterCount, disposeCount>>
    /\ UNCHANGED nonRelVars

\* nanos6_decrease_task_event_counter from any thread, for events that were
\* bound to the task.
nanos6_decrease_task_event_counter(th, t, decrement) ==
    /\ decrement > 0
    /\ decrement <= pendingEvents[t]
    /\ pendingEvents' = [pendingEvents EXCEPT ![t] = @ - decrement]
    /\ DecreaseAndTest(th, t, decrement, "event")
    /\ UNCHANGED <<released, taskPhase, unregisterCount, disposeCount>>
    /\ UNCHANGED nonRelVars

\* A mutant: the accesses are not unregistered on this path.
ReleaseAccessesSkipped(th) ==
    /\ rpc[th] = "unregister"
    /\ rpc' = [rpc EXCEPT ![th] = "mark"]
    /\ UNCHANGED <<releaseCount, released, pendingEvents, taskPhase, unregisterCount,
                   disposeCount, zeroBy, rtask>>
    /\ UNCHANGED nonRelVars

\* Lines 54-82: unregisterTaskDataAccesses, with the dependency data of the
\* CPU or a local one, then TaskFinalization::taskFinished.
ReleaseAccesses(th) ==
    /\ rpc[th] = "unregister"
    /\ unregisterCount' = [unregisterCount EXCEPT ![rtask[th]] = @ + 1]
    /\ rpc' = [rpc EXCEPT ![th] = "mark"]
    /\ UNCHANGED <<releaseCount, released, pendingEvents, taskPhase, disposeCount, zeroBy,
                   rtask>>
    /\ UNCHANGED nonRelVars

\* Line 85, Task::markAsReleased: the released flag goes from false to true,
\* atomically; the call fails if it was true.
markAsReleased(th) ==
    /\ rpc[th] = "mark"
    /\ IF released[rtask[th]]
       THEN /\ rpc' = [rpc EXCEPT ![th] = "idle"]
            /\ rtask' = [rtask EXCEPT ![th] = NoTask]
            /\ UNCHANGED released
       ELSE /\ released' = [released EXCEPT ![rtask[th]] = TRUE]
            /\ rpc' = [rpc EXCEPT ![th] = "dispose"]
            /\ UNCHANGED rtask
    /\ UNCHANGED <<releaseCount, pendingEvents, taskPhase, unregisterCount, disposeCount,
                   zeroBy>>
    /\ UNCHANGED nonRelVars

\* Line 86: TaskFinalization::disposeTask
disposeTask(th) ==
    /\ rpc[th] = "dispose"
    /\ disposeCount' = [disposeCount EXCEPT ![rtask[th]] = @ + 1]
    /\ rpc' = [rpc EXCEPT ![th] = "idle"]
    /\ rtask' = [rtask EXCEPT ![th] = NoTask]
    /\ UNCHANGED <<releaseCount, released, pendingEvents, taskPhase, unregisterCount, zeroBy>>
    /\ UNCHANGED nonRelVars

RelNext ==
    \/ \E t \in RelTasks : StartBody(t)
    \/ \E t \in RelTasks, n \in 1 .. MaxEvents : nanos6_increase_current_task_event_counter(t, n)
    \/ \E th \in RelThreads, t \in RelTasks : BodyReturns(th, t)
    \/ \E th \in RelThreads, t \in RelTasks, n \in 1 .. MaxEvents :
           nanos6_decrease_task_event_counter(th, t, n)
    \/ \E th \in RelThreads : ReleaseAccesses(th)
    \/ \E th \in RelThreads : markAsReleased(th)
    \/ \E th \in RelThreads : disposeTask(th)

SpecReleaseInit == SchedQuiet /\ RelInit /\ DepInit /\ ExecInit /\ ClusterInit

SpecRelease == SpecReleaseInit /\ [][RelNext]_vars

\* Some thread is inside the release of task t.
Releasing(t) == \E th \in RelThreads : rpc[th] # "idle" /\ rtask[th] = t

\* C4: a task is disposed at most once, only with its release counter at
\* zero and its released flag set by a successful markAsReleased; and once
\* the counter is zero, the flag is set and the releasing thread has
\* returned, the task has been disposed.
DisposedIffZeroAndReleased ==
    \A t \in RelTasks :
        /\ disposeCount[t] <= 1
        /\ disposeCount[t] = 1 => (releaseCount[t] = 0 /\ released[t])
        /\ (releaseCount[t] = 0 /\ released[t] /\ ~Releasing(t)) => disposeCount[t] = 1
        /\ (releaseCount[t] = 0 /\ ~Releasing(t)) => released[t]

\* A task is disposed after an event decrement from another thread, later
\* than the return of its body, brought the counter to zero.
DisposedByEvent ==
    \E t \in RelTasks : disposeCount[t] = 1 /\ zeroBy[t] = "event"

\* C10: the accesses of a task are unregistered at most once, only with the
\* release counter at zero, by the thread whose decrement reached zero and
\* before the task is marked released or disposed; a thread whose decrement
\* did not reach zero releases nothing.
UnregisterOnceAtZero ==
    \A t \in RelTasks :
        /\ unregisterCount[t] <= 1
        /\ unregisterCount[t] = 1 => releaseCount[t] = 0
        /\ (released[t] \/ disposeCount[t] > 0) => unregisterCount[t] = 1
        /\ releaseCount[t] > 0 => ~Releasing(t)
        /\ releaseCount[t] = 0 =>
               \/ unregisterCount[t] = 1
               \/ \E th \in RelThreads : rpc[th] = "unregister" /\ rtask[th] = t

\* The accesses of a task are unregistered and the task is not yet marked
\* released, while another task still holds unfulfilled events.
UnregisteredNotYetReleased ==
    \E t, u \in RelTasks :
        /\ unregisterCount[t] = 1 /\ ~released[t]
        /\ pendingEvents[u] > 0 /\ taskPhase[u] = "returned" /\ unregisterCount[u] = 0

(***************************************************************************)
(* The dependency engine: one chain of accesses per region, satisfiability *)
(* flags per access, propagation along the chain, the commutative          *)
(* scoreboard, and the workers that run the bodies of the ready tasks.     *)
(***************************************************************************)

\* What a task may declare on a region: nothing, or an access of one of
\* these types; an IN access may be weak.
AccessKinds ==
    {[type |-> ty, weak |-> FALSE] : ty \in {"NONE", "IN", "OUT", "INOUT", "COMMUTATIVE"}}
        \cup {[type |-> "IN", weak |-> TRUE]}

\* The declarations of a task: any kind of access on x; y is there for the
\* tasks that hold several commutative regions at once.
Declarations ==
    {d \in [Regions -> AccessKinds] : d["y"].type \in {"NONE", "COMMUTATIVE"}}

\* DataAccess: the flags of an access as constructed, nothing satisfied.
NewDataAccess(t, kind) ==
    [task |-> t, type |-> kind.type, weak |-> kind.weak,
     read |-> FALSE, write |-> FALSE, commutative |-> FALSE, complete |-> FALSE]

\* CPUDependencyData::UpdateOperation: the satisfiability an operation
\* brings to its target.
UpdateOperation(r, w, c) ==
    [makeReadSatisfied |-> r, makeWriteSatisfied |-> w, makeCommutativeSatisfied |-> c]

\* UpdateOperation::empty
empty(op) ==
    ~op.makeReadSatisfied /\ ~op.makeWriteSatisfied /\ ~op.makeCommutativeSatisfied

\* A mutant: an access forwards what it holds without being complete.
ForwardedBeforeComplete(a) ==
    UpdateOperation(a.read, a.write, a.commutative \/ (a.read /\ a.write))

\* The satisfiability an access has passed on to its successor: read once
\* the access is complete (at once for a weak IN access), write once it is
\* complete, commutative at once between commutative accesses and otherwise
\* once the access is complete and fully satisfied.
Forwarded(a) ==
    UpdateOperation(
        a.read /\ (a.complete \/ (a.type = "IN" /\ a.weak)),
        a.write /\ a.complete,
        \/ a.commutative /\ a.type = "COMMUTATIVE"
        \/ a.read /\ a.write /\ a.complete)

\* A mutant: the flags of the operation replace those of the access.
ApplyOverwrite(a, op) ==
    [a EXCEPT !.read = op.makeReadSatisfied,
              !.write = op.makeWriteSatisfied,
              !.commutative = op.makeCommutativeSatisfied]

\* An update operation sets flags of its target and clears none.
Apply(a, op) ==
    [a EXCEPT !.read = @ \/ op.makeReadSatisfied,
              !.write = @ \/ op.makeWriteSatisfied,
              !.commutative = @ \/ op.makeCommutativeSatisfied]

\* What an access passes on to its successor when it goes from old to new.
Delta(old, new) ==
    UpdateOperation(
        Forwarded(new).makeReadSatisfied /\ ~Forwarded(old).makeReadSatisfied,
        Forwarded(new).makeWriteSatisfied /\ ~Forwarded(old).makeWriteSatisfied,
        Forwarded(new).makeCommutativeSatisfied /\ ~Forwarded(old).makeCommutativeSatisfied)

\* propagate: the access at position i of a chain becomes new; what it
\* newly forwards is applied to its successor, and so on down the chain.
RECURSIVE Propagate(_, _, _)
Propagate(chain, i, new) ==
    LET old == chain[i]
        next == [chain EXCEPT ![i] = new]
        op == Delta(old, new)
    IN  IF i = Len(chain) \/ empty(op)
        THEN next
        ELSE Propagate(next, i + 1, Apply(chain[i + 1], op))

\* Position in a chain of the access of task t, 0 if it has none.
AccessIndex(chain, t) ==
    IF \E i \in 1 .. Len(chain) : chain[i].task = t
    THEN CHOOSE i \in 1 .. Len(chain) : chain[i].task = t
    ELSE 0

\* register_accesses for one region: the new access is linked behind the
\* last access of the region and inherits what that access has forwarded;
\* with no predecessor it inherits from the parent, which holds the region.
RegisterAccess(chain, t, kind) ==
    IF kind.type = "NONE" THEN chain
    ELSE IF Len(chain) = 0
         THEN Append(chain, Apply(NewDataAccess(t, kind), UpdateOperation(TRUE, TRUE, TRUE)))
         ELSE Append(chain, Apply(NewDataAccess(t, kind), Forwarded(chain[Len(chain)])))

\* unregister_accesses for one region: the access of the task is complete
\* and forwards what it holds.
UnregisterAccess(chain, t) ==
    IF AccessIndex(chain, t) = 0 THEN chain
    ELSE Propagate(chain, AccessIndex(chain, t),
                   [chain[AccessIndex(chain, t)] EXCEPT !.complete = TRUE])

\* An access is satisfied to the degree its type demands; a weak access
\* never holds its task back.
Satisfied(a) ==
    \/ a.weak
    \/ a.type = "IN" /\ a.read
    \/ a.type \in {"OUT", "INOUT"} /\ a.read /\ a.write
    \/ a.type = "COMMUTATIVE" /\ a.commutative

\* The task is ready: all its accesses are satisfied.
AllSatisfied(accs, t) ==
    \A r \in Regions : \A i \in 1 .. Len(accs[r]) :
        accs[r][i].task = t => Satisfied(accs[r][i])

\* Regions on which the task has a commutative access.
CommutativeRegions(accs, t) ==
    {r \in Regions : \E i \in 1 .. Len(accs[r]) :
        accs[r][i].task = t /\ accs[r][i].type = "COMMUTATIVE" /\ ~accs[r][i].weak}

\* The elements of a set of tasks, oldest task first.
RECURSIVE InOrder(_)
InOrder(S) ==
    IF S = {} THEN <<>>
    ELSE LET m == CHOOSE t \in S : \A u \in S : t <= u
         IN <<m>> \o InOrder(S \ {m})

\* The scoreboard after the candidates, taken in order, have tried to
\* acquire their commutative regions: a candidate acquires all its regions
\* when all are free and none otherwise.
RECURSIVE Grant(_, _, _)
Grant(board, candidates, accs) ==
    IF candidates = <<>> THEN board
    ELSE LET t == Head(candidates)
             mine == CommutativeRegions(accs, t)
         IN IF \A r \in mine : board[r] = NoTask
            THEN Grant([r \in Regions |-> IF r \in mine THEN t ELSE board[r]],
                       Tail(candidates), accs)
            ELSE Grant(board, Tail(candidates), accs)

\* A mutant: the scoreboard is not consulted, every candidate is granted.
GrantedAlways(board, t, accs) == TRUE

\* The task holds all its commutative regions.
Granted(board, t, accs) == \A r \in CommutativeRegions(accs, t) : board[r] = t

\* The scoreboard without the regions that were released.
Freed(board, releasedRegions) ==
    [r \in Regions |-> IF r \in releasedRegions THEN NoTask ELSE board[r]]

\* The satisfied originators batched in the dependency data are handed
\* over: the waiters and then the newly satisfied commutative tasks try to
\* acquire the scoreboard in FIFO order, and every task that needs no
\* region or got its regions is posted to the scheduler.
HandOver(state, freed, satisfied, accs) ==
    \E candidates \in {commWaiters \o InOrder({t \in satisfied : CommutativeRegions(accs, t) # {}})} :
    \E newBoard \in {Grant(freed, candidates, accs)} :
        /\ dstate' = [t \in DepTasks |->
                         IF t \in satisfied \/ (\E i \in 1 .. Len(commWaiters) : commWaiters[i] = t)
                         THEN IF Granted(newBoard, t, accs) THEN "ready" ELSE "waiting"
                         ELSE state[t]]
        /\ scoreboard' = newBoard
        /\ commWaiters' = SelectSeq(candidates, LAMBDA t : ~Granted(newBoard, t, accs))

\* Tasks are interchangeable: they are created in the order of their
\* identifiers.
NextDepTask ==
    IF \E t \in DepTasks : dstate[t] = "created"
    THEN CHOOSE t \in DepTasks : dstate[t] = "created" /\ \A u \in DepTasks : dstate[u] = "created" => t <= u
    ELSE NoTask

\* A task is created and submitted: its accesses are registered, and it is
\* handed to the scheduler if they are all satisfied already.
SubmitTask(t, decl) ==
    /\ t = NextDepTask
    /\ \E accs \in {[r \in Regions |-> RegisterAccess(accesses[r], t, decl[r])]} :
          /\ accesses' = accs
          /\ HandOver([dstate EXCEPT ![t] = "pending"], scoreboard,
                      IF AllSatisfied(accs, t) THEN {t} ELSE {}, accs)
    /\ UNCHANGED <<satisfiedOriginators, releasedCommutativeRegions, dpc, dtask>>
    /\ UNCHANGED nonDepVars

\* A worker gets a ready task and HostExecutionStep::start calls its body.
StartTaskBody(w, t) ==
    /\ dpc[w] = "idle"
    /\ dstate[t] = "ready"
    /\ dstate' = [dstate EXCEPT ![t] = "running"]
    /\ dpc' = [dpc EXCEPT ![w] = "body"]
    /\ dtask' = [dtask EXCEPT ![w] = t]
    /\ UNCHANGED <<accesses, scoreboard, commWaiters, satisfiedOriginators,
                   releasedCommutativeRegions>>
    /\ UNCHANGED nonDepVars

\* The body returns.
TaskBodyReturns(w) ==
    /\ dpc[w] = "body"
    /\ dstate' = [dstate EXCEPT ![dtask[w]] = "returned"]
    /\ dpc' = [dpc EXCEPT ![w] = "unregister"]
    /\ UNCHANGED <<accesses, scoreboard, commWaiters, satisfiedOriginators,
                   releasedCommutativeRegions, dtask>>
    /\ UNCHANGED nonDepVars

\* unregister_accesses: under the lock of the access set, every access of
\* the task is completed and propagated; the tasks that became satisfied
\* and the commutative regions the task held are batched in the dependency
\* data of the CPU.
UnregisterTaskDataAccesses(w) ==
    /\ dpc[w] = "unregister"
    /\ \E accs \in {[r \in Regions |-> UnregisterAccess(accesses[r], dtask[w])]} :
       \E satisfied \in {{u \in DepTasks : dstate[u] = "pending" /\ AllSatisfied(accs, u)}} :
          /\ accesses' = accs
          /\ satisfiedOriginators' = [satisfiedOriginators EXCEPT ![w] = satisfied]
          /\ releasedCommutativeRegions' = [releasedCommutativeRegions EXCEPT ![w] =
                 CommutativeRegions(accs, dtask[w])]
          /\ dstate' = [u \in DepTasks |->
                 IF u = dtask[w] THEN "finished"
                 ELSE IF u \in satisfied THEN "satisfied"
                 ELSE dstate[u]]
    /\ dpc' = [dpc EXCEPT ![w] = "drain"]
    /\ UNCHANGED <<scoreboard, commWaiters, dtask>>
    /\ UNCHANGED nonDepVars

\* The worker drains the dependency data of its CPU, after the lock of the
\* access set has been released: the released commutative regions are
\* freed and the satisfied originators handed over.
DrainDependencyData(w) ==
    /\ dpc[w] = "drain"
    /\ HandOver(dstate, Freed(scoreboard, releasedCommutativeRegions[w]),
                satisfiedOriginators[w], accesses)
    /\ satisfiedOriginators' = [satisfiedOriginators EXCEPT ![w] = {}]
    /\ releasedCommutativeRegions' = [releasedCommutativeRegions EXCEPT ![w] = {}]
    /\ dpc' = [dpc EXCEPT ![w] = "idle"]
    /\ dtask' = [dtask EXCEPT ![w] = NoTask]
    /\ UNCHANGED accesses
    /\ UNCHANGED nonDepVars

DepNext ==
    \/ \E t \in DepTasks, decl \in Declarations : SubmitTask(t, decl)
    \/ \E w \in DepWorkers, t \in DepTasks : StartTaskBody(w, t)
    \/ \E w \in DepWorkers : TaskBodyReturns(w)
    \/ \E w \in DepWorkers : UnregisterTaskDataAccesses(w)
    \/ \E w \in DepWorkers : DrainDependencyData(w)

SpecDepsInit == SchedQuiet /\ RelInit /\ DepInit /\ ExecInit /\ ClusterInit

SpecDeps == SpecDepsInit /\ [][DepNext]_vars

\* What a worker does next: its steps exclude each other.
WorkerStep(w) ==
    \/ \E t \in DepTasks : StartTaskBody(w, t)
    \/ TaskBodyReturns(w)
    \/ UnregisterTaskDataAccesses(w)
    \/ DrainDependencyData(w)

\* The workers are scheduled fairly: a worker that can start a ready task,
\* finish a body, unregister or drain eventually does so. Nothing obliges
\* the application to create further tasks.
DepFairness == \A w \in DepWorkers : WF_vars(WorkerStep(w))

\* The commutative contention: a task declares a commutative access, an
\* inout access or nothing on x, and a commutative access or nothing on y.
CommutativeDeclarations ==
    {d \in Declarations : d["x"].type \in {"NONE", "COMMUTATIVE", "INOUT"}}

CommutativeNext ==
    \/ \E t \in DepTasks, decl \in CommutativeDeclarations : SubmitTask(t, decl)
    \/ \E w \in DepWorkers, t \in DepTasks : StartTaskBody(w, t)
    \/ \E w \in DepWorkers : TaskBodyReturns(w)
    \/ \E w \in DepWorkers : UnregisterTaskDataAccesses(w)
    \/ \E w \in DepWorkers : DrainDependencyData(w)

CommutativeInit == SchedQuiet /\ RelInit /\ DepInit /\ ExecInit /\ ClusterInit

SpecCommutativeFair == CommutativeInit /\ [][CommutativeNext]_vars /\ DepFairness

BodyStarted(t) == dstate[t] \in {"running", "returned", "finished"}
BodyReturned(t) == dstate[t] \in {"returned", "finished"}

\* The access writes its region.
Writes(a) == a.type \in {"OUT", "INOUT", "COMMUTATIVE"}

\* C2: when B has a non-weak access to a region behind a writing access of
\* A, the body of B has started only if the body of A has returned. Two
\* commutative accesses are not ordered by the dependency.
StartsAfterWriterReturned ==
    \A r \in Regions : \A i, j \in 1 .. Len(accesses[r]) :
        (/\ i < j
         /\ Writes(accesses[r][i])
         /\ ~accesses[r][j].weak
         /\ ~(accesses[r][i].type = "COMMUTATIVE" /\ accesses[r][j].type = "COMMUTATIVE")
         /\ BodyStarted(accesses[r][j].task))
            => BodyReturned(accesses[r][i].task)

\* A task waits for a writer that is running, and another task runs behind
\* a writer that has finished.
WaitedForWriter ==
    /\ Len(accesses["x"]) = 3
    /\ accesses["x"][1].type = "OUT" /\ dstate[accesses["x"][1].task] = "finished"
    /\ accesses["x"][2].type = "INOUT" /\ dstate[accesses["x"][2].task] = "running"
    /\ accesses["x"][3].type = "IN" /\ ~accesses["x"][3].weak
    /\ dstate[accesses["x"][3].task] = "pending"

\* Tasks whose body is running with a commutative access to the region.
ExecutingCommutative(r) ==
    {t \in DepTasks : dstate[t] = "running" /\ r \in CommutativeRegions(accesses, t)}

\* Every submitted task with a commutative access has executed.
CommutativeTasksDone ==
    \A t \in DepTasks :
        (dstate[t] # "created" /\ CommutativeRegions(accesses, t) # {})
            => dstate[t] = "finished"

\* C5: at most one task executes with a commutative access to a region at
\* any instant, and the submitted tasks with a commutative access always
\* get to execute, all of them.
CommutativeExclusiveAndAllExecute ==
    /\ [](\A r \in Regions : Cardinality(ExecutingCommutative(r)) <= 1)
    /\ []<>CommutativeTasksDone

\* A commutative task runs while an older one, which wants the same region,
\* waits at the scoreboard.
CommutativeOvertaken ==
    \E t, u \in DepTasks :
        /\ t < u
        /\ "x" \in CommutativeRegions(accesses, t) \cap CommutativeRegions(accesses, u)
        /\ dstate[t] = "waiting"
        /\ dstate[u] = "running"

NextExecTask ==
    IF \E t \in ExecTasks : estate[t] = "created"
    THEN CHOOSE t \in ExecTasks : estate[t] = "created" /\ \A u \in ExecTasks : estate[u] = "created" => t <= u
    ELSE NoTask

\* ClusterExecutionStep::start: the step is recorded in the task and the
\* task is offloaded, a TaskNew message leaves for the target node.
ClusterExecutionStep_start(t) ==
    /\ executionStep' = [executionStep EXCEPT ![t] = "cluster"]
    /\ taskNew' = taskNew \cup {t}
    /\ estate' = [estate EXCEPT ![t] = "offloaded"]
    /\ route' = [route EXCEPT ![t] = "offloaded"]

\* ClusterLocalityScheduler::addReadyTask for a task without a workflow:
\* the task goes to the ready queue of this node, or its workflow is
\* created for the node that holds most of its data and the cluster
\* execution step starts.
SubmitReadyTask(t, offload) ==
    /\ t = NextExecTask
    /\ IF offload
       THEN /\ workflow' = [workflow EXCEPT ![t] = TRUE]
            /\ ClusterExecutionStep_start(t)
       ELSE /\ estate' = [estate EXCEPT ![t] = "queued"]
            /\ UNCHANGED <<workflow, executionStep, taskNew, route>>
    /\ UNCHANGED <<execCount, taskFinished, xpc, xtask>>
    /\ UNCHANGED nonExecVars

\* A mutant: the step started outside a worker adds the task back for
\* scheduling and goes on to call the body.
HostExecutionStep_startNoReturn(t, w, threadTask) ==
    /\ execCount' = [execCount EXCEPT ![t] = @ + 1]
    /\ IF w = NoWorker \/ threadTask = NoTask
       THEN /\ executionStep' = [executionStep EXCEPT ![t] = "host"]
            /\ estate' = [estate EXCEPT ![t] = "queued"]
            /\ route' = [route EXCEPT ![t] = "requeued"]
            /\ UNCHANGED <<xpc, xtask>>
       ELSE /\ executionStep' = [executionStep EXCEPT ![t] = "none"]
            /\ estate' = [estate EXCEPT ![t] = "running"]
            /\ xpc' = [xpc EXCEPT ![w] = "body"]
            /\ xtask' = [xtask EXCEPT ![w] = t]
            /\ UNCHANGED route

\* HostExecutionStep::start on thread w, whose task is threadTask. Outside
\* a worker thread, or on one without a task, the step is recorded in the
\* task and the task is added back for scheduling. Otherwise the body is
\* called: on the worker that handles the task, or inside whatever task
\* that worker is running, where it runs to its end before the step
\* returns. A step started by the worker that handles the task is no
\* longer recorded in the task: the worker has taken it out.
HostExecutionStep_start(t, w, threadTask) ==
    IF w = NoWorker \/ threadTask = NoTask
    THEN /\ executionStep' = [executionStep EXCEPT ![t] = "host"]
         /\ estate' = [estate EXCEPT ![t] = "queued"]
         /\ route' = [route EXCEPT ![t] = "requeued"]
         /\ UNCHANGED <<execCount, xpc, xtask>>
    ELSE IF threadTask = t
    THEN /\ execCount' = [execCount EXCEPT ![t] = @ + 1]
         /\ executionStep' = [executionStep EXCEPT ![t] = "none"]
         /\ estate' = [estate EXCEPT ![t] = "running"]
         /\ xpc' = [xpc EXCEPT ![w] = "body"]
         /\ xtask' = [xtask EXCEPT ![w] = t]
         /\ UNCHANGED route
    ELSE /\ execCount' = [execCount EXCEPT ![t] = @ + 1]
         /\ estate' = [estate EXCEPT ![t] = "finished"]
         /\ route' = [route EXCEPT ![t] = "nested"]
         /\ UNCHANGED <<executionStep, xpc, xtask>>

\* A worker gets the task from the scheduler. A task without a workflow
\* gets one: the worker leaves it to its data transfers when data has to be
\* fetched, and starts the execution step at once otherwise.
WorkerExecutesNewTask(w, t, needsFetch) ==
    /\ xpc[w] = "idle"
    /\ estate[t] = "queued"
    /\ ~workflow[t]
    /\ workflow' = [workflow EXCEPT ![t] = TRUE]
    /\ IF needsFetch
       THEN /\ estate' = [estate EXCEPT ![t] = "fetching"]
            /\ UNCHANGED <<executionStep, execCount, route, xpc, xtask>>
       ELSE HostExecutionStep_start(t, w, t)
    /\ UNCHANGED <<taskNew, taskFinished>>
    /\ UNCHANGED nonExecVars

\* A worker gets a task that was added back for scheduling: it takes the
\* execution step out of the task and starts it.
WorkerResumesExecutionStep(w, t) ==
    /\ xpc[w] = "idle"
    /\ estate[t] = "queued"
    /\ workflow[t]
    /\ executionStep[t] = "host"
    /\ HostExecutionStep_start(t, w, t)
    /\ UNCHANGED <<workflow, taskNew, taskFinished>>
    /\ UNCHANGED nonExecVars

\* The last data copy step of the task finishes and releases the execution
\* step, on a thread that is no worker or on a worker that polls for the
\* transfers.
DataCopyStepFinishes(t, w) ==
    /\ estate[t] = "fetching"
    /\ HostExecutionStep_start(t, w, IF w = NoWorker THEN NoTask ELSE xtask[w])
    /\ UNCHANGED <<workflow, taskNew, taskFinished>>
    /\ UNCHANGED nonExecVars

\* The body returns and the execution step releases its successors.
HostExecutionStep_releaseSuccessors(w) ==
    /\ xpc[w] = "body"
    /\ estate' = [estate EXCEPT ![xtask[w]] = "finished"]
    /\ xpc' = [xpc EXCEPT ![w] = "idle"]
    /\ xtask' = [xtask EXCEPT ![w] = NoTask]
    /\ UNCHANGED <<workflow, executionStep, execCount, route, taskNew, taskFinished>>
    /\ UNCHANGED nonExecVars

\* The target node receives TaskNew, runs the body in a wrapper task and
\* answers with TaskFinished.
RemoteNodeExecutes(t) ==
    /\ t \in taskNew
    /\ taskNew' = taskNew \ {t}
    /\ execCount' = [execCount EXCEPT ![t] = @ + 1]
    /\ taskFinished' = taskFinished \cup {t}
    /\ UNCHANGED <<estate, workflow, executionStep, route, xpc, xtask>>
    /\ UNCHANGED nonExecVars

\* A mutant: the handler leaves the execution step in the task.
MessageTaskFinished_handleMessageKeepsStep(t) ==
    /\ t \in taskFinished
    /\ executionStep[t] # "none"
    /\ taskFinished' = taskFinished \ {t}
    /\ estate' = [estate EXCEPT ![t] = "finished"]
    /\ stepReleases' = [stepReleases EXCEPT ![t] = @ + 1]
    /\ UNCHANGED <<workflow, executionStep, execCount, route, taskNew, xpc, xtask>>
    /\ UNCHANGED nonOffloadVars

\* MessageTaskFinished::handleMessage: the execution step is taken out of
\* the task, releases its successors and is deleted.
MessageTaskFinished_handleMessage(t) ==
    /\ t \in taskFinished
    /\ executionStep[t] # "none"
    /\ taskFinished' = taskFinished \ {t}
    /\ executionStep' = [executionStep EXCEPT ![t] = "none"]
    /\ estate' = [estate EXCEPT ![t] = "finished"]
    /\ stepReleases' = [stepReleases EXCEPT ![t] = @ + 1]
    /\ UNCHANGED <<workflow, execCount, route, taskNew, xpc, xtask>>
    /\ UNCHANGED nonOffloadVars

ExecNext ==
    \/ \E t \in ExecTasks, offload \in BOOLEAN : SubmitReadyTask(t, offload)
    \/ \E w \in ExecWorkers, t \in ExecTasks, needsFetch \in BOOLEAN :
          WorkerExecutesNewTask(w, t, needsFetch)
    \/ \E w \in ExecWorkers, t \in ExecTasks : WorkerResumesExecutionStep(w, t)
    \/ \E t \in ExecTasks, w \in ExecWorkers \cup {NoWorker} : DataCopyStepFinishes(t, w)
    \/ \E w \in ExecWorkers : HostExecutionStep_releaseSuccessors(w)
    \/ \E t \in ExecTasks : RemoteNodeExecutes(t)
    \/ \E t \in ExecTasks : MessageTaskFinished_handleMessage(t)

SpecExecInit == SchedQuiet /\ RelInit /\ DepInit /\ ExecInit /\ ClusterInit

SpecExec == SpecExecInit /\ [][ExecNext]_vars

\* Nothing is left to do: no task is queued or waits for data, no body
\* runs, no message is in flight.
ExecQuiescent ==
    /\ \A t \in ExecTasks : estate[t] \notin {"queued", "fetching", "running"}
    /\ taskNew = {} /\ taskFinished = {}

\* C3: the body of a task is never called twice, a finished task has had
\* its body called once, and no submitted task is left without its body
\* called when nothing is left to do.
BodyExecutedExactlyOnce ==
    \A t \in ExecTasks :
        /\ execCount[t] <= 1
        /\ estate[t] = "finished" => execCount[t] = 1
        /\ (ExecQuiescent /\ estate[t] # "created") => execCount[t] = 1

\* One task has run after being added back for scheduling and another one
\* after being offloaded.
RequeuedAndOffloadedDone ==
    \E t, u \in ExecTasks :
        /\ estate[t] = "finished" /\ route[t] = "requeued" /\ execCount[t] = 1
        /\ estate[u] = "finished" /\ route[u] = "offloaded" /\ execCount[u] = 1

\* C16: an execution step started by the last data copy step on a thread
\* that is no worker, or on a worker without a task, puts the task back in
\* the scheduler with the step recorded in it, and neither calls the body
\* nor finishes the task; the body of such a task is called by a worker
\* that takes the task from the scheduler, and has been called once
\* nothing is left to do.
StartedOutsideWorkerIsRequeued ==
    /\ [][\A t \in ExecTasks, w \in ExecWorkers \cup {NoWorker} :
            (DataCopyStepFinishes(t, w) /\ (w = NoWorker \/ xtask[w] = NoTask))
                => /\ estate'[t] = "queued"
                   /\ executionStep'[t] = "host"
                   /\ execCount'[t] = execCount[t]
                   /\ xpc' = xpc]_vars
    /\ [][\A t \in ExecTasks :
            (route[t] = "requeued" /\ execCount'[t] # execCount[t])
                => \E w \in ExecWorkers : WorkerResumesExecutionStep(w, t)]_vars
    /\ [](\A t \in ExecTasks :
            (ExecQuiescent /\ route[t] = "requeued")
                => (execCount[t] = 1 /\ estate[t] = "finished"))

\* One task waits in the scheduler with its execution step recorded and
\* its body not called, while the body of another one, which was added back
\* the same way, runs on a worker.
RequeuedWaitsAndRequeuedRuns ==
    \E t, u \in ExecTasks :
        /\ route[t] = "requeued" /\ estate[t] = "queued"
        /\ executionStep[t] = "host" /\ execCount[t] = 0
        /\ route[u] = "requeued" /\ estate[u] = "running" /\ execCount[u] = 1
        /\ \E w \in ExecWorkers : xpc[w] = "body" /\ xtask[w] = u

\* C21: a TaskFinished message waits only for a task whose cluster
\* execution step is set; handling it takes the step out of the task and
\* releases the successors of the step, once for the task: a finished
\* offloaded task has no step, no message left and one release, and no
\* step releases but in the handler.
TaskFinishedReleasesStepOnce ==
    /\ [](\A t \in ExecTasks :
            /\ t \in taskFinished => executionStep[t] = "cluster"
            /\ stepReleases[t] <= 1
            /\ (route[t] = "offloaded" /\ estate[t] = "finished")
                  => /\ stepReleases[t] = 1
                     /\ executionStep[t] = "none"
                     /\ t \notin taskFinished /\ t \notin taskNew
            /\ stepReleases[t] = 1 => estate[t] = "finished")
    /\ [][\A t \in ExecTasks :
            MessageTaskFinished_handleMessage(t)
                => /\ executionStep[t] = "cluster" /\ executionStep'[t] = "none"
                   /\ stepReleases'[t] = stepReleases[t] + 1]_vars

\* Two offloaded tasks: the TaskFinished of one has been handled while
\* that of the other waits.
OneHandledOneWaiting ==
    \E t, u \in ExecTasks :
        /\ route[t] = "offloaded" /\ estate[t] = "finished" /\ stepReleases[t] = 1
        /\ u \in taskFinished /\ executionStep[u] = "cluster" /\ stepReleases[u] = 0

(***************************************************************************)
(* The workflow of an offloaded task: the data link steps, the execution   *)
(* step they release and the notification step behind it.                  *)
(***************************************************************************)

\* Bytes are counted in an unsigned integer: a subtraction wraps around.
SizeSub(a, b) == (a - b + SizeModulus) % SizeModulus

\* The bytes a link accounts for: both kinds count.
LinkedBytes(read, write) == IF read /\ write THEN 2 * RegionSize ELSE RegionSize

\* The kinds of satisfiability a link carries.
Kinds(read, write) ==
    (IF read THEN {"read"} ELSE {}) \cup (IF write THEN {"write"} ELSE {})

\* ClusterDataLinkStep::linkRegion: under the lock of the step the
\* satisfiability is sent to the remote node and its bytes are subtracted.
\* When the step has started and no byte is left deleteStep is set, and
\* nothing is done with it: the step stays. The caller holds the pointer
\* the constructor left in the access; the call does not ask whether the
\* step is still there, and on a step that start() has deleted it takes
\* the lock and writes the count of an object that is gone.
ClusterDataLinkStep_linkRegion(s, read, write) ==
    /\ read \/ write
    /\ lpc[s] # "releasing"
    /\ read => readLinks[s] + (IF lcreated[s].read THEN 1 ELSE 0) < MaxReadPaths
    /\ write => ~lcreated[s].write /\ writeLinks[s] = 0
    /\ readLinks' = [readLinks EXCEPT ![s] = @ + (IF read THEN 1 ELSE 0)]
    /\ writeLinks' = [writeLinks EXCEPT ![s] = @ + (IF write THEN 1 ELSE 0)]
    /\ IF ldeleted[s]
       THEN /\ lused' = [lused EXCEPT ![s] = TRUE]
            /\ UNCHANGED <<linkedKinds, bytesToLink>>
       ELSE /\ linkedKinds' = [linkedKinds EXCEPT ![s] = @ \cup Kinds(read, write)]
            /\ bytesToLink' = [bytesToLink EXCEPT ![s] = SizeSub(@, LinkedBytes(read, write))]
            /\ UNCHANGED lused
    /\ remoteChannel' = Append(remoteChannel, "Satisfiability")
    /\ UNCHANGED <<lcreated, lpc, lstarted, lzero, ldeleteStep, ldeleted, satInfo,
                   execPending, execStarts, notifyPending, notifyStarts>>
    /\ UNCHANGED nonLinkVars

\* ClusterDataLinkStep::start, up to the release of the successor: under
\* the lock of the step the satisfiability at creation is added to the
\* execution step; a step created read and write satisfied is to be
\* deleted, any other subtracts the region once and is started. The
\* release takes one predecessor off the execution step, atomically.
ClusterDataLinkStep_start(s) ==
    /\ lpc[s] = "created"
    /\ lpc' = [lpc EXCEPT ![s] = "releasing"]
    /\ satInfo' = satInfo \cup {s}
    /\ linkedKinds' = [linkedKinds EXCEPT ![s] = @ \cup Kinds(lcreated[s].read, lcreated[s].write)]
    /\ IF lcreated[s].read /\ lcreated[s].write
       THEN /\ ldeleteStep' = [ldeleteStep EXCEPT ![s] = TRUE]
            /\ UNCHANGED <<bytesToLink, lstarted>>
       ELSE /\ bytesToLink' = [bytesToLink EXCEPT ![s] = SizeSub(@, RegionSize)]
            /\ lstarted' = [lstarted EXCEPT ![s] = TRUE]
            /\ UNCHANGED ldeleteStep
    /\ execPending' = execPending - 1
    /\ lzero' = [lzero EXCEPT ![s] = (execPending - 1 = 0)]
    /\ UNCHANGED <<lcreated, ldeleted, lused, readLinks, writeLinks, execStarts,
                   notifyPending, notifyStarts, remoteChannel>>
    /\ UNCHANGED nonLinkVars

\* A mutant: the release starts the successor whatever is left of its
\* predecessors.
ReleaseStartsAlways(s) == TRUE

\* Step::releaseSuccessors: the successor is started by the release that
\* took its last predecessor off.
ReleaseStarts(s) == lzero[s]

\* ClusterDataLinkStep::start, the rest: the successor is started if this
\* was its last predecessor (ClusterExecutionStep::start offloads the
\* task), the lock is released and the step deleted if it is to be.
ClusterDataLinkStep_released(s) ==
    /\ lpc[s] = "releasing"
    /\ lpc' = [lpc EXCEPT ![s] = "started"]
    /\ execStarts' = IF ReleaseStarts(s) THEN execStarts + 1 ELSE execStarts
    /\ remoteChannel' =
          IF ReleaseStarts(s) THEN Append(remoteChannel, "TaskNew") ELSE remoteChannel
    /\ ldeleted' = [ldeleted EXCEPT ![s] = ldeleteStep[s]]
    /\ UNCHANGED <<lcreated, lstarted, bytesToLink, lzero, ldeleteStep, lused,
                   linkedKinds, readLinks, writeLinks, satInfo, execPending,
                   notifyPending, notifyStarts>>
    /\ UNCHANGED nonLinkVars

\* MessageTaskFinished::handleMessage on the offloaded task: the execution
\* step releases its successor, the notification step, which starts, runs
\* its callback and deletes itself.
ClusterNotificationStep_start ==
    /\ execStarts > 0
    /\ notifyPending > 0
    /\ notifyPending' = notifyPending - 1
    /\ notifyStarts' = IF notifyPending - 1 = 0 THEN notifyStarts + 1 ELSE notifyStarts
    /\ UNCHANGED <<lcreated, lpc, lstarted, bytesToLink, lzero, ldeleteStep, ldeleted,
                   lused, linkedKinds, readLinks, writeLinks, satInfo, execPending,
                   execStarts, remoteChannel>>
    /\ UNCHANGED nonLinkVars

LinkNext ==
    \/ \E s \in LinkSteps, read, write \in BOOLEAN : ClusterDataLinkStep_linkRegion(s, read, write)
    \/ \E s \in LinkSteps : ClusterDataLinkStep_start(s)
    \/ \E s \in LinkSteps : ClusterDataLinkStep_released(s)
    \/ ClusterNotificationStep_start

SpecLinkInit ==
    /\ SchedQuiet /\ RelInit /\ DepInit /\ ExecInit
    /\ LinkInit /\ FetchQuiet /\ LocalityQuiet /\ OffloadInit /\ ServiceInit

SpecLink == SpecLinkInit /\ [][LinkNext]_vars

\* C11: the execution step, which has one predecessor per data link step,
\* and the notification step behind it are never started twice, are started
\* only when every predecessor has released them, and are started once
\* every predecessor has.
StartedOnceAfterAllPredecessors ==
    /\ execStarts <= 1
    /\ notifyStarts <= 1
    /\ execStarts = 1 => \A s \in LinkSteps : lpc[s] # "created" /\ s \in satInfo
    /\ notifyStarts = 1 => execStarts = 1
    /\ (\A s \in LinkSteps : lpc[s] = "started") => execStarts = 1

\* Two data link steps are in their release at once: the first took one
\* predecessor off the execution step, the second the last one, and the
\* execution step has not been started yet.
ConcurrentReleases ==
    /\ lpc[1] = "releasing" /\ lpc[2] = "releasing"
    /\ ~lzero[1] /\ lzero[2]
    /\ execStarts = 0

\* All the bytes of the step are linked: it was created read and write
\* satisfied, or its count is at zero.
AllLinked(s) ==
    \/ lcreated[s].read /\ lcreated[s].write
    \/ bytesToLink[s] = 0

\* C12: no data link step is used after it has deleted itself: once start()
\* has deleted the step no link takes its lock or writes its count.
NoStepUsedAfterDelete == \A s \in LinkSteps : ~lused[s]

\* C13: a data link step is deleted exactly when its start has run and its
\* bytes are all linked: not before, and it does not stay after.
DeletedWhenLinkedAndStarted ==
    \A s \in LinkSteps : ldeleted[s] <=> (lpc[s] = "started" /\ AllLinked(s))

\* C14: a link that carries no kind that was not linked before leaves the
\* byte count as it is, and no link takes the count below zero.
LinkCountsOnce ==
    [][\A s \in LinkSteps :
          /\ (lpc'[s] = lpc[s] /\ linkedKinds'[s] = linkedKinds[s])
                => bytesToLink'[s] = bytesToLink[s]
          /\ bytesToLink'[s] <= bytesToLink[s]]_vars

\* C31: the byte count of a data link step is zero exactly when read and
\* write satisfiability have both been passed to the remote node, by start()
\* in the TaskNew message or by linkRegion afterwards, whatever the step
\* was created with and whatever the order of the calls. A step created
\* read and write satisfied does not count and is left out.
ZeroWhenAllPassed ==
    \A s \in LinkSteps :
        ~(lcreated[s].read /\ lcreated[s].write) =>
            (bytesToLink[s] = 0 <=> linkedKinds[s] = {"read", "write"})

\* C23: on the channel from the offloader to the remote node no
\* Satisfiability message of a task precedes the TaskNew message of the
\* task, also when linkRegion is called between the creation and the start
\* of the data link step.
NoSatisfiabilityBeforeTaskNew ==
    \A i \in 1 .. Len(remoteChannel) :
        remoteChannel[i] = "Satisfiability" =>
            \E j \in 1 .. (i - 1) : remoteChannel[j] = "TaskNew"

(***************************************************************************)
(* The data copy steps of the tasks offloaded to this node and the queue   *)
(* of pending data transfers.                                              *)
(***************************************************************************)

\* The lambda of requiresDataFetch: the pending transfer has this node as
\* its target and its region fully contains the region of the step.
ContainsRegion(dt) == dt.incoming /\ dt.whole

\* checkPendingQueue: the first pending transfer the lambda accepts, 0 if
\* it accepts none.
FirstPending ==
    IF \E i \in DOMAIN transfers : ContainsRegion(transfers[i])
    THEN CHOOSE i \in DOMAIN transfers :
            /\ ContainsRegion(transfers[i])
            /\ \A j \in 1 .. (i - 1) : ~ContainsRegion(transfers[j])
    ELSE 0

\* ClusterDataCopyStep::requiresDataFetch: a step that needs no transfer,
\* or whose WriteID the node holds, releases its successors, deletes itself
\* and returns false; a step whose region a pending transfer to this node
\* contains adds a completion callback to that transfer and returns false;
\* any other step returns true.
ClusterDataCopyStep_requiresDataFetch(s) ==
    /\ cpc[s] = "created"
    /\ IF ~needsTransfer[s] \/ writeIDLocal
       THEN /\ cpc' = [cpc EXCEPT ![s] = "done"]
            /\ creleases' = [creleases EXCEPT ![s] = @ + 1]
            /\ cdeleted' = [cdeleted EXCEPT ![s] = TRUE]
            /\ UNCHANGED transfers
       ELSE IF FirstPending # 0
            THEN /\ transfers' = [transfers EXCEPT ![FirstPending].callbacks = @ \cup {s}]
                 /\ cpc' = [cpc EXCEPT ![s] = "attached"]
                 /\ UNCHANGED <<creleases, cdeleted>>
            ELSE /\ cpc' = [cpc EXCEPT ![s] = "fetch"]
                 /\ UNCHANGED <<creleases, cdeleted, transfers>>
    /\ UNCHANGED <<needsTransfer, fragments, nFragments, writeIDLocal>>
    /\ UNCHANGED nonFetchVars

\* The caller of a step that requires a data fetch requests one transfer
\* per fragment of the region, each with the post callback of the step, and
\* adds them to the queue of pending transfers (addPendingDataTransfer
\* takes the lock of the queue on its own).
FetchData(s) ==
    /\ cpc[s] = "fetch"
    /\ transfers' = transfers \o
            [i \in 1 .. fragments[s] |->
                [owner |-> s, incoming |-> TRUE, whole |-> (fragments[s] = 1),
                 callbacks |-> {}]]
    /\ cpc' = [cpc EXCEPT ![s] = "transfer"]
    /\ UNCHANGED <<needsTransfer, fragments, nFragments, writeIDLocal, creleases, cdeleted>>
    /\ UNCHANGED nonFetchVars

\* A mutant: the post callback releases the successors for every fragment.
LastFragmentAlways(n) == TRUE

\* _postcallback: --_nFragments == 0
LastFragment(n) == n - 1 = 0

\* The steps whose life ends when the transfer completes: the owner, if
\* this was its last fragment (_postcallback), and every step that added a
\* completion callback.
Completed(dt) ==
    dt.callbacks \cup
        (IF dt.owner # NoTask /\ LastFragment(nFragments[dt.owner]) THEN {dt.owner} ELSE {})

\* checkDataTransfers: with the lock of the queue held a completed
\* transfer runs its callbacks and leaves the queue. Transfers that
\* complete in one call are taken one after the other.
checkDataTransfers(i) ==
    /\ i \in DOMAIN transfers
    /\ \E dt \in {transfers[i]} :
          /\ nFragments' = [s \in CopySteps |->
                                IF s = dt.owner THEN nFragments[s] - 1 ELSE nFragments[s]]
          /\ cpc' = [s \in CopySteps |-> IF s \in Completed(dt) THEN "done" ELSE cpc[s]]
          /\ creleases' = [s \in CopySteps |->
                                IF s \in Completed(dt) THEN creleases[s] + 1 ELSE creleases[s]]
          /\ cdeleted' = [s \in CopySteps |-> cdeleted[s] \/ s \in Completed(dt)]
    /\ transfers' = RemoveAt(transfers, i)
    /\ UNCHANGED <<needsTransfer, fragments, writeIDLocal>>
    /\ UNCHANGED nonFetchVars

FetchNext ==
    \/ \E s \in CopySteps : ClusterDataCopyStep_requiresDataFetch(s)
    \/ \E s \in CopySteps : FetchData(s)
    \/ \E i \in 1 .. (NumCopySteps * MaxFragments + 1) : checkDataTransfers(i)

SpecFetchInit ==
    /\ SchedQuiet /\ RelInit /\ DepInit /\ ExecInit
    /\ LinkQuiet /\ FetchInit /\ LocalityQuiet /\ OffloadInit /\ ServiceInit

SpecFetch == SpecFetchInit /\ [][FetchNext]_vars

\* The pending transfers that step s requested.
OwnTransfers(s) == {i \in DOMAIN transfers : transfers[i].owner = s}

\* The pending transfers that step s has added a completion callback to.
AttachedTransfers(s) == {i \in DOMAIN transfers : s \in transfers[i].callbacks}

\* C32: a data copy step releases its successors exactly once on every
\* path: at once when no transfer is needed or the WriteID is local, in the
\* completion callback of the pending transfer that covers its region, and
\* otherwise only after the callbacks of all of its fragments have run; the
\* fragment counter is the number of fragments created and reaches zero
\* once.
CopyStepReleasesOnce ==
    /\ [](\A s \in CopySteps :
            /\ creleases[s] <= 1
            /\ creleases[s] = 1 <=> cpc[s] = "done"
            /\ cdeleted[s] <=> cpc[s] = "done"
            /\ cpc[s] \in {"created", "fetch"} => nFragments[s] = fragments[s]
            /\ cpc[s] = "transfer" =>
                  nFragments[s] >= 1 /\ Cardinality(OwnTransfers(s)) = nFragments[s]
            /\ cpc[s] = "attached" => Cardinality(AttachedTransfers(s)) = 1
            /\ cpc[s] = "done" => OwnTransfers(s) = {} /\ AttachedTransfers(s) = {}
            /\ nFragments[s] >= 0)
    /\ [][\A s \in CopySteps :
             /\ (ClusterDataCopyStep_requiresDataFetch(s) /\ (~needsTransfer[s] \/ writeIDLocal))
                   => creleases'[s] = 1
             /\ (cpc[s] = "transfer" /\ creleases'[s] = 1)
                   => nFragments'[s] = 0 /\ Cardinality(OwnTransfers(s)) = 1]_vars

\* One step has released its successors after the callbacks of its two
\* fragments, the other at once because it needed no transfer.
ReleasedAfterFragmentsAndAtOnce ==
    \E s, t \in CopySteps :
        /\ s # t
        /\ cpc[s] = "done" /\ fragments[s] = 2 /\ nFragments[s] = 0 /\ creleases[s] = 1
        /\ cpc[t] = "done" /\ ~needsTransfer[t] /\ creleases[t] = 1
        /\ ~writeIDLocal

\* C15: the region is never fetched twice at once: the transfers to this
\* node that are pending at any moment were all requested by one step.
NoDuplicateFetch ==
    \A i, j \in DOMAIN transfers :
        (transfers[i].incoming /\ transfers[j].incoming)
            => transfers[i].owner = transfers[j].owner

(***************************************************************************)
(* The cluster schedulers: the node a ready task is offloaded to.          *)
(***************************************************************************)

\* An access of a task: whether its region is cluster memory, the node its
\* bytes have their home on (none before the first touch) and its size.
Access ==
    [cluster : {TRUE}, home : Nodes \cup {NoHome}, size : 1 .. MaxAccessSize]
        \cup {[cluster |-> FALSE, home |-> ThisNode, size |-> 1]}

\* The accesses of a task.
TaskAccesses == UNION {[1 .. n -> Access] : n \in 0 .. MaxAccesses}

\* Every access of the task is in cluster memory.
InClusterMemory(task) == \A i \in DOMAIN task : task[i].cluster

RECURSIVE SizeOn(_, _, _)
\* The bytes of the first i accesses that have their home on h. The
\* accesses are gone through up to the first one outside cluster memory.
SizeOn(task, h, i) ==
    IF i = 0 THEN 0
    ELSE SizeOn(task, h, i - 1)
            + (IF task[i].home = h /\ \A j \in 1 .. i : task[j].cluster
               THEN task[i].size ELSE 0)

\* bytes: what each node backs of the accesses of the task.
Bytes(task) == [n \in Nodes |-> SizeOn(task, n, Len(task))]

\* ft_bytes: the bytes of the task that no node backs yet.
FtBytes(task) == SizeOn(task, NoHome, Len(task))

\* A mutant: every task can be offloaded.
CanAlwaysBeOffloaded(task) == TRUE

\* canBeOffloaded: every access of the task is in cluster memory.
CanBeOffloaded(task) == InClusterMemory(task)

\* *std::max_element(bytes.begin(), bytes.end())
MaxBytes(bytes) == CHOOSE m \in {bytes[n] : n \in Nodes} : \A n \in Nodes : bytes[n] <= m

\* std::distance(it, std::max_element(it, it + clusterSize)): the first of
\* the nodes with the most bytes.
MaxElement(bytes) ==
    CHOOSE n \in Nodes :
        /\ bytes[n] = MaxBytes(bytes)
        /\ \A k \in Nodes : k < n => bytes[k] < bytes[n]

\* std::adjacent_find(..., std::not_equal_to<>()) == bytes.end()
AllEqual(bytes) == \A n \in Nodes : n + 1 \in Nodes => bytes[n] = bytes[n + 1]

\* A mutant: the bytes without a home never count.
FirstTouchNeverExceeds(ft, bytes) == FALSE

\* A mutant: the bytes without a home always count.
FirstTouchAlwaysExceeds(ft, bytes) == TRUE

\* ft_bytes > locality_tuning * max_bytes
FirstTouchExceeds(ft, bytes) == ft * TuningDenominator > localityTuning * MaxBytes(bytes)

\* The nodes that share the most bytes.
Tied(bytes) == {n \in Nodes : bytes[n] = MaxBytes(bytes)}

\* What a decision leaves behind. The decision is one more in a row for
\* the lowest of several tied nodes when the task can be offloaded, the
\* scheduler went by the bytes of the nodes, several nodes share the most
\* bytes and the first of them was taken; the row goes on when the
\* decision before it was of that kind, by the same scheduler, for the
\* same bytes.
Decided(via, task, byBytes, node, target) ==
    /\ schedVia' = via
    /\ schedBytes' = Bytes(task)
    /\ schedFtBytes' = FtBytes(task)
    /\ schedOffloadable' = InClusterMemory(task)
    /\ schedFtNode' = nextFtNode
    /\ schedNode' = node
    /\ schedTarget' = target
    /\ lowestStreak' =
          IF byBytes /\ Cardinality(Tied(Bytes(task))) > 1 /\ node = MaxElement(Bytes(task))
          THEN IF lowestStreak > 0 /\ schedVia = via /\ schedBytes = Bytes(task)
               THEN (IF lowestStreak < MaxStreak THEN lowestStreak + 1 ELSE MaxStreak)
               ELSE 1
          ELSE 0

\* getNextFtNode: the nodes in turn.
getNextFtNode == (nextFtNode + 1) % NumNodes

\* The node a task runs on when the scheduler has returned a node: this
\* node when the task is not to be offloaded.
TargetOf(node) == IF node = nanos6_cluster_no_offload THEN ThisNode ELSE node

\* ClusterLocalityScheduler::getScheduledNode
ClusterLocalityScheduler_getScheduledNode(task) ==
    /\ IF ~CanBeOffloaded(task)
       THEN /\ Decided("locality", task, FALSE, nanos6_cluster_no_offload, ThisNode)
            /\ UNCHANGED nextFtNode
       ELSE IF FirstTouchExceeds(FtBytes(task), Bytes(task)) \/ AllEqual(Bytes(task))
       THEN /\ Decided("locality", task, ~FirstTouchExceeds(FtBytes(task), Bytes(task)),
                       nextFtNode, TargetOf(nextFtNode))
            /\ nextFtNode' = getNextFtNode
       ELSE /\ Decided("locality", task, TRUE, MaxElement(Bytes(task)),
                       TargetOf(MaxElement(Bytes(task))))
            /\ UNCHANGED nextFtNode
    /\ UNCHANGED localityTuning
    /\ UNCHANGED nonLocVars

\* ClusterLocalityScheduler::addReadyTask, for a task that is not spawned,
\* not if0, not remote and has no workflow: a task with an access outside
\* cluster memory, or whose bytes are mostly on this node, is added to the
\* scheduler of this node; any other is offloaded to the first of the
\* nodes with the most bytes. Every access it is given here has a home.
ClusterLocalityScheduler_addReadyTask(task) ==
    /\ \A i \in DOMAIN task : task[i].home # NoHome
    /\ IF ~CanBeOffloaded(task)
       THEN Decided("addReadyTask", task, FALSE, nanos6_cluster_no_offload, ThisNode)
       ELSE Decided("addReadyTask", task, TRUE, MaxElement(Bytes(task)), MaxElement(Bytes(task)))
    /\ UNCHANGED <<localityTuning, nextFtNode>>
    /\ UNCHANGED nonLocVars

\* ClusterRandomScheduler::getScheduledNode: distr(eng) is any node.
ClusterRandomScheduler_getScheduledNode(task, random) ==
    /\ IF ~CanBeOffloaded(task)
       THEN Decided("random", task, FALSE, nanos6_cluster_no_offload, ThisNode)
       ELSE Decided("random", task, FALSE, random, TargetOf(random))
    /\ UNCHANGED <<localityTuning, nextFtNode>>
    /\ UNCHANGED nonLocVars

LocalityNext ==
    \/ \E task \in TaskAccesses : ClusterLocalityScheduler_getScheduledNode(task)
    \/ \E task \in TaskAccesses : ClusterLocalityScheduler_addReadyTask(task)
    \/ \E task \in TaskAccesses, random \in Nodes :
          ClusterRandomScheduler_getScheduledNode(task, random)

SpecLocalityInit ==
    /\ SchedQuiet /\ RelInit /\ DepInit /\ ExecInit
    /\ LinkQuiet /\ FetchQuiet /\ LocalityInit /\ OffloadInit /\ ServiceInit

SpecLocality == SpecLocalityInit /\ [][LocalityNext]_vars

\* The last task went through a locality scheduler and can be offloaded.
LocalityDecision == schedVia \in {"locality", "addReadyTask"} /\ schedOffloadable

\* The bytes without a home of the last task are over the threshold.
OverThreshold == schedFtBytes * TuningDenominator > localityTuning * MaxBytes(schedBytes)

TiesBrokenRoundRobin == lowestStreak < MaxStreak

\* C19: a task with an access outside cluster memory is given no node by
\* any scheduler and runs on this node.
NonClusterMemoryStaysLocal ==
    (schedVia # "none" /\ ~schedOffloadable)
        => (schedNode = nanos6_cluster_no_offload /\ schedTarget = ThisNode)

\* A task with bytes on another node and an access outside cluster memory
\* was given no node.
NonClusterTaskKeptLocal ==
    /\ schedVia # "none" /\ ~schedOffloadable
    /\ schedNode = nanos6_cluster_no_offload
    /\ MaxBytes(schedBytes) > 0 /\ MaxElement(schedBytes) # ThisNode

CoreQuiet ==
    /\ SchedQuiet /\ RelInit /\ DepInit /\ ExecInit
    /\ LinkQuiet /\ FetchQuiet /\ LocalityQuiet /\ OffloadInit

FreeSpawned == {s \in Spawned : spawnState[s] = "none"}

\* AddTask::createTask hands out a task that is not in use: the first one.
NewSpawned == {s \in FreeSpawned : \A u \in FreeSpawned : s <= u}

\* SpawnFunction::spawnFunction: one task is created, its args block is
\* filled and it is submitted without parent.
SpawnFunction_spawnFunction(s, function, args, completionCallback, completionArgs, creator) ==
    /\ s \in NewSpawned
    /\ pendingSpawnedFunctions' = pendingSpawnedFunctions + 1
    /\ argsBlock' = [argsBlock EXCEPT ![s] =
          [function |-> function, args |-> args,
           completionCallback |-> completionCallback,
           completionArgs |-> completionArgs]]
    /\ spawnParent' = [spawnParent EXCEPT ![s] = "nullptr"]
    /\ spawnCreator' = [spawnCreator EXCEPT ![s] = creator]
    /\ spawnState' = [spawnState EXCEPT ![s] = "submitted"]

\* nanos6_spawn_function, called by user code.
nanos6_spawn_function(s, args, completionCallback, completionArgs) ==
    /\ SpawnFunction_spawnFunction(s, "function", args, completionCallback,
                                   completionArgs, "nanos6_spawn_function")
    /\ UNCHANGED <<functionCalls, completionCalls, msgState, msgWrappers, msgFrees>>
    /\ UNCHANGED nonSpawnVars

\* The offloader sends the TaskNew message of a task.
SendTaskNew(m) ==
    /\ msgState[m] = "unsent"
    /\ msgState' = [msgState EXCEPT ![m] = "received"]
    /\ UNCHANGED <<spawnState, argsBlock, spawnParent, spawnCreator, functionCalls,
                   completionCalls, pendingSpawnedFunctions, msgWrappers, msgFrees>>
    /\ UNCHANGED nonSpawnVars

\* MessageTaskNew::handleMessage: the handler spawns the wrapper itself and
\* returns false, so that its caller does not delete the message.
MessageTaskNew_handleMessage(m, s) ==
    /\ msgState[m] = "received"
    /\ SpawnFunction_spawnFunction(s, "remoteTaskWrapper", m, "remoteTaskCleanup", m,
                                   "MessageTaskNew::handleMessage")
    /\ msgState' = [msgState EXCEPT ![m] = "handled"]
    /\ UNCHANGED <<functionCalls, completionCalls, msgWrappers, msgFrees>>
    /\ UNCHANGED nonSpawnVars

\* SpawnFunction::spawnedFunctionWrapper, the body of the task: it calls the
\* spawned function with its arguments.
SpawnFunction_spawnedFunctionWrapper(s) ==
    /\ spawnState[s] = "submitted"
    /\ spawnState' = [spawnState EXCEPT ![s] = "running"]
    /\ functionCalls' = [functionCalls EXCEPT ![s] = Append(@, argsBlock[s].args)]
    /\ msgWrappers' =
          IF argsBlock[s].function = "remoteTaskWrapper"
          THEN [msgWrappers EXCEPT ![argsBlock[s].args] = @ + 1]
          ELSE msgWrappers
    /\ UNCHANGED <<argsBlock, spawnParent, spawnCreator, completionCalls,
                   pendingSpawnedFunctions, msgState, msgFrees>>
    /\ UNCHANGED nonSpawnVars

\* The spawned function returns and the task finishes.
SpawnedFunctionReturns(s) ==
    /\ spawnState[s] = "running"
    /\ spawnState' = [spawnState EXCEPT ![s] = "finished"]
    /\ UNCHANGED <<argsBlock, spawnParent, spawnCreator, functionCalls, completionCalls,
                   pendingSpawnedFunctions, msgState, msgWrappers, msgFrees>>
    /\ UNCHANGED nonSpawnVars

\* A mutant: the destructor calls the completion callback without looking at it.
CallsCompletionCallbackAlways(block) == TRUE

\* SpawnFunction::spawnedFunctionDestructor: the test of the callback.
CallsCompletionCallback(block) == block.completionCallback # "nullptr"

\* SpawnFunction::spawnedFunctionDestructor, called when the finished task
\* is destroyed; remoteTaskCleanup deletes the message it is given.
SpawnFunction_spawnedFunctionDestructor(s) ==
    /\ spawnState[s] = "finished"
    /\ spawnState' = [spawnState EXCEPT ![s] = "destroyed"]
    /\ IF CallsCompletionCallback(argsBlock[s])
       THEN /\ completionCalls' =
                  [completionCalls EXCEPT ![s] = Append(@, argsBlock[s].completionArgs)]
            /\ IF argsBlock[s].completionCallback = "remoteTaskCleanup"
               THEN /\ msgFrees' =
                          [msgFrees EXCEPT ![argsBlock[s].completionArgs] = @ + 1]
                    /\ msgState' =
                          [msgState EXCEPT ![argsBlock[s].completionArgs] = "deleted"]
               ELSE UNCHANGED <<msgFrees, msgState>>
       ELSE UNCHANGED <<completionCalls, msgFrees, msgState>>
    /\ UNCHANGED <<argsBlock, spawnParent, spawnCreator, functionCalls,
                   pendingSpawnedFunctions, msgWrappers>>
    /\ UNCHANGED nonSpawnVars

SpawnNext ==
    \/ \E s \in Spawned, args \in Args, completionCallback \in {"nullptr", "callback"},
          completionArgs \in Args :
          nanos6_spawn_function(s, args, completionCallback, completionArgs)
    \/ \E m \in TaskNewMessages : SendTaskNew(m)
    \/ \E m \in TaskNewMessages, s \in Spawned : MessageTaskNew_handleMessage(m, s)
    \/ \E s \in Spawned : SpawnFunction_spawnedFunctionWrapper(s)
    \/ \E s \in Spawned : SpawnedFunctionReturns(s)
    \/ \E s \in Spawned : SpawnFunction_spawnedFunctionDestructor(s)

SpecSpawnInit ==
    CoreQuiet /\ SpawnInit /\ MessengerQuiet /\ BlockInit /\ ReleaseQuiet /\ NumaQuiet
    /\ FragInit
    /\ LateQuiet

SpecSpawn == SpecSpawnInit /\ [][SpawnNext]_vars

\* The spawned tasks that run the wrapper of TaskNew message m.
WrappersOf(m) ==
    {s \in Spawned : /\ spawnState[s] # "none"
                     /\ argsBlock[s].function = "remoteTaskWrapper"
                     /\ argsBlock[s].args = m}

\* C22: every TaskNew message received is dequeued by the node-namespace
\* task, which spawns exactly one wrapper for it; no message is handled
\* without a wrapper, none has two, and the message is deleted exactly once,
\* after its wrapper has finished.
TaskNewSpawnedByNamespace ==
    \A m \in TaskNewMessages :
        /\ msgState[m] \in {"handled", "deleted"} => Cardinality(WrappersOf(m)) = 1
        /\ \A s \in WrappersOf(m) : spawnCreator[s] = "NodeNamespace::bodyPrivate"
        /\ msgWrappers[m] <= 1
        /\ msgFrees[m] <= 1
        /\ msgFrees[m] = 1 =>
              \A s \in WrappersOf(m) : spawnState[s] = "destroyed" /\ msgWrappers[m] = 1

\* What the handler does keep of C22: one wrapper for each message handled,
\* one delete of the message, after the wrapper has finished.
TaskNewWrappedAndDeletedOnce ==
    \A m \in TaskNewMessages :
        /\ msgState[m] \in {"handled", "deleted"} => Cardinality(WrappersOf(m)) = 1
        /\ msgState[m] \in {"unsent", "received"} => WrappersOf(m) = {}
        /\ msgWrappers[m] <= 1
        /\ msgFrees[m] <= 1
        /\ msgFrees[m] = 1 <=> msgState[m] = "deleted"
        /\ msgFrees[m] = 1 =>
              \A s \in WrappersOf(m) : spawnState[s] = "destroyed" /\ msgWrappers[m] = 1

\* C27: a spawned function runs in one parentless task, which calls it once
\* with its arguments; the completion callback is called once with its
\* arguments, after the function has returned, when it is not null, and
\* never when it is null.
SpawnedRunsOnceThenCompletes ==
    \A s \in Spawned :
        /\ spawnState[s] # "none" => spawnParent[s] = "nullptr"
        /\ functionCalls[s] \in {<<>>, <<argsBlock[s].args>>}
        /\ functionCalls[s] # <<>> <=> spawnState[s] \in {"running", "finished", "destroyed"}
        /\ completionCalls[s] \in {<<>>, <<argsBlock[s].completionArgs>>}
        /\ completionCalls[s] # <<>> <=>
              spawnState[s] = "destroyed" /\ argsBlock[s].completionCallback # "nullptr"
        /\ pendingSpawnedFunctions = Cardinality(Spawned \ FreeSpawned)

\* One task was destroyed with a callback and one without, both after their
\* function had run.
DestroyedWithAndWithoutCallback ==
    \E s, t \in Spawned :
        /\ spawnState[s] = "destroyed" /\ spawnState[t] = "destroyed"
        /\ argsBlock[s].completionCallback = "callback" /\ Len(completionCalls[s]) = 1
        /\ argsBlock[t].completionCallback = "nullptr" /\ completionCalls[t] = <<>>
        /\ Len(functionCalls[s]) = 1 /\ Len(functionCalls[t]) = 1

(***************************************************************************)
(* The MPI messenger: the messages and the raw data one node sends to      *)
(* this node, and what this node receives.                                 *)
(***************************************************************************)

\* MPIMessenger::createTag: _mpi_ub_tag & ((id << 8) | type), the upper
\* bound being TagBits ones.
createTag(id, type) == ((id * TypeModulus) + type) % TagModulus

\* MPIMessenger::getTag: _mpi_ub_tag & ((messageId << 8) | DATA_RAW).
getTag(messageId) == ((messageId * TypeModulus) + DATA_RAW) % TagModulus

\* MPIMessenger::checkMail: status.MPI_TAG & 0xff.
TypeOfTag(tag) == tag % TypeModulus

\* The communicator of the raw data.
DataComm == IF mpiCommDataRaw THEN "INTRA_COMM_DATA_RAW" ELSE "INTRA_COMM"

\* The positions of q whose tag is tag.
WithTag(q, tag) == {i \in 1 .. Len(q) : q[i].tag = tag}

\* MPI matches the earliest send that fits a receive.
FirstWithTag(q, tag) == CHOOSE i \in WithTag(q, tag) : \A j \in WithTag(q, tag) : i <= j

\* The positions of the posted receives whose tag is tag.
PostedFor(tag) == {i \in 1 .. Len(postedRecvs) : postedRecvs[i].tag = tag}

\* MPI matches a send with the earliest posted receive that fits it.
FirstPostedFor(tag) == CHOOSE i \in PostedFor(tag) : \A j \in PostedFor(tag) : i <= j

\* A send on communicator comm: MPI_Send and MPI_Isend order the transfer
\* after the earlier ones of the sender; a posted receive with its tag
\* takes it as it arrives.
MPISend(comm, m) ==
    IF comm = DataComm /\ PostedFor(m.tag) # {}
    THEN /\ postedRecvs' = RemoveAt(postedRecvs, FirstPostedFor(m.tag))
         /\ fetched' = Append(fetched, m)
         /\ fetchedFor' = Append(fetchedFor, postedRecvs[FirstPostedFor(m.tag)].id)
         /\ UNCHANGED commQueue
    ELSE /\ commQueue' = [commQueue EXCEPT ![comm] = Append(@, m)]
         /\ UNCHANGED <<postedRecvs, fetched, fetchedFor>>

\* MPIMessenger::sendMessage: a blocking send marks the message as
\* completed, any other adds it to the pending queue.
MPIMessenger_sendMessage(id, type, block, thread) ==
    /\ sendCount < MaxSends
    /\ \E m \in {[seq |-> sendCount + 1, kind |-> "message", id |-> id, type |-> type,
                  tag |-> createTag(id, type), block |-> block, thread |-> thread]} :
          /\ MPISend("INTRA_COMM", m)
          /\ sentLog' = Append(sentLog, m)
    /\ sendCount' = sendCount + 1
    /\ IF block
       THEN /\ completedMessages' = completedMessages \cup {sendCount + 1}
            /\ UNCHANGED pendingMessages
       ELSE /\ pendingMessages' = pendingMessages \cup {sendCount + 1}
            /\ UNCHANGED completedMessages
    /\ UNCHANGED <<mpiCommDataRaw, fetchCount, delivered, lastMail>>
    /\ UNCHANGED nonMsgrVars

\* MPIMessenger::sendData: the region is sent on the communicator of the
\* raw data, with the tag of its message id.
MPIMessenger_sendData(messageId, block, thread) ==
    /\ sendCount < MaxSends
    /\ \E m \in {[seq |-> sendCount + 1, kind |-> "data", id |-> messageId,
                  type |-> DATA_RAW, tag |-> getTag(messageId), block |-> block,
                  thread |-> thread]} :
          MPISend(DataComm, m)
    /\ sendCount' = sendCount + 1
    /\ UNCHANGED <<mpiCommDataRaw, fetchCount, sentLog, delivered, pendingMessages,
                   completedMessages, lastMail>>
    /\ UNCHANGED nonMsgrVars

\* MPIMessenger::fetchData: a receive for the tag of the message id on the
\* communicator of the raw data; it takes the earliest transfer with the
\* tag, or waits for it.
MPIMessenger_fetchData(messageId) ==
    /\ fetchCount < MaxFetches
    /\ fetchCount' = fetchCount + 1
    /\ IF WithTag(commQueue[DataComm], getTag(messageId)) # {}
       THEN \E i \in {FirstWithTag(commQueue[DataComm], getTag(messageId))} :
               /\ fetched' = Append(fetched, commQueue[DataComm][i])
               /\ fetchedFor' = Append(fetchedFor, messageId)
               /\ commQueue' = [commQueue EXCEPT ![DataComm] = RemoveAt(@, i)]
               /\ UNCHANGED postedRecvs
       ELSE /\ postedRecvs' = Append(postedRecvs, [tag |-> getTag(messageId),
                                                   id |-> messageId])
            /\ UNCHANGED <<commQueue, fetched, fetchedFor>>
    /\ UNCHANGED <<mpiCommDataRaw, sendCount, sentLog, delivered, pendingMessages,
                   completedMessages, lastMail>>
    /\ UNCHANGED nonMsgrVars

\* A mutant: the probe answers with the latest transfer.
ProbedLast(q) == Len(q)

\* MPI_Iprobe with any source and any tag on INTRA_COMM: the earliest
\* transfer of the sender that no receive has taken.
Probed(q) == 1

\* A mutant: no transfer is taken for raw data.
IsNeverDataRaw(type) == FALSE

\* MPIMessenger::checkMail: the test of the type of the probed transfer.
IsDataRaw(type) == type = DATA_RAW

\* MPIMessenger::checkMail: nothing to receive, or raw data, which is left
\* to fetchData, or a message, which is received by source and tag and
\* returned as a message of the type in its tag.
MPIMessenger_checkMail ==
    /\ \E q \in {commQueue["INTRA_COMM"]} :
          IF q = <<>>
          THEN /\ lastMail' = "nothing"
               /\ UNCHANGED <<commQueue, delivered>>
          ELSE IF IsDataRaw(TypeOfTag(q[Probed(q)].tag))
          THEN /\ lastMail' = "give up"
               /\ UNCHANGED <<commQueue, delivered>>
          ELSE \E i \in {FirstWithTag(q, q[Probed(q)].tag)} :
                  /\ lastMail' = "message"
                  /\ delivered' =
                        Append(delivered, [q[i] EXCEPT !.type = TypeOfTag(q[Probed(q)].tag)])
                  /\ commQueue' = [commQueue EXCEPT !["INTRA_COMM"] = RemoveAt(@, i)]
    /\ UNCHANGED <<mpiCommDataRaw, postedRecvs, sendCount, fetchCount, sentLog, fetched,
                   fetchedFor, pendingMessages, completedMessages>>
    /\ UNCHANGED nonMsgrVars

MessengerNext ==
    \/ \E id \in MessageIds, type \in MessageTypes, block \in BOOLEAN,
          thread \in SenderThreads : MPIMessenger_sendMessage(id, type, block, thread)
    \/ \E messageId \in MessageIds, block \in BOOLEAN, thread \in SenderThreads :
          MPIMessenger_sendData(messageId, block, thread)
    \/ \E messageId \in MessageIds : MPIMessenger_fetchData(messageId)
    \/ MPIMessenger_checkMail

SpecMessengerInit ==
    CoreQuiet /\ SpawnInit /\ MessengerInit /\ BlockInit /\ ReleaseQuiet /\ NumaQuiet
    /\ FragInit
    /\ LateQuiet

SpecMessenger == SpecMessengerInit /\ [][MessengerNext]_vars

DataRawOnlyFetched ==
    /\ [](/\ \A i \in 1 .. Len(delivered) :
               delivered[i].kind = "message" /\ TypeOfTag(delivered[i].tag) # DATA_RAW
          /\ \A i \in 1 .. Len(fetched) :
               fetched[i].kind = "data" /\ TypeOfTag(fetched[i].tag) = DATA_RAW)
    /\ [][\A i \in 1 .. Len(commQueue["INTRA_COMM"]) :
             (/\ MPIMessenger_checkMail
              /\ TypeOfTag(commQueue["INTRA_COMM"][i].tag) = DATA_RAW)
             => \E k \in 1 .. Len(commQueue'["INTRA_COMM"]) :
                   commQueue'["INTRA_COMM"][k] = commQueue["INTRA_COMM"][i]]_vars

\* checkMail has found raw data ahead of a message on the one communicator
\* and has given up.
GaveUpOnDataRaw ==
    /\ ~mpiCommDataRaw
    /\ lastMail = "give up"
    /\ Len(commQueue["INTRA_COMM"]) >= 2
    /\ commQueue["INTRA_COMM"][1].kind = "data"
    /\ commQueue["INTRA_COMM"][2].kind = "message"

\* C38: what a fetchData for a message id receives is the region that
\* sendData sent with that message id: two message ids never have the same
\* tag.
FetchMatchesItsMessageId ==
    /\ Len(fetchedFor) = Len(fetched)
    /\ \A i \in 1 .. Len(fetched) :
          fetched[i].kind = "data" /\ fetched[i].id = fetchedFor[i]

(***************************************************************************)
(* The blocking API: nanos6_block_current_task and nanos6_unblock_task.    *)
(***************************************************************************)

\* A mutant: the unblocked task is added with no hint.
UnblockHintNone == "NO_HINT"

\* nanos6_unblock_task: the hint of the task it adds.
UnblockHint == "UNBLOCKED_TASK_HINT"

\* nanos6_block_current_task up to TaskBlocking::taskBlocks: the task is
\* about to give its worker away.
nanos6_block_current_task(t) ==
    /\ bstate[t] = "running"
    /\ blockCalls[t] < MaxBlocks
    /\ blockCalls' = [blockCalls EXCEPT ![t] = @ + 1]
    /\ bstate' = [bstate EXCEPT ![t] = "blocking"]
    /\ UNCHANGED <<unblockCalls, blockReturns, resumeToken, unblockedQueue>>
    /\ UNCHANGED nonBlockVars

\* TaskBlocking::taskBlocks: the thread of the task is suspended, unless it
\* has been resumed already, and then the call returns at once.
TaskBlocking_taskBlocks(t) ==
    /\ bstate[t] = "blocking"
    /\ IF resumeToken[t]
       THEN /\ resumeToken' = [resumeToken EXCEPT ![t] = FALSE]
            /\ bstate' = [bstate EXCEPT ![t] = "running"]
            /\ blockReturns' = [blockReturns EXCEPT ![t] = @ + 1]
       ELSE /\ bstate' = [bstate EXCEPT ![t] = "suspended"]
            /\ UNCHANGED <<resumeToken, blockReturns>>
    /\ UNCHANGED <<blockCalls, unblockCalls, unblockedQueue>>
    /\ UNCHANGED nonBlockVars

\* nanos6_unblock_task, called by any thread for a task that has called
\* nanos6_block_current_task: the task is added to the scheduler once.
nanos6_unblock_task(t) ==
    /\ unblockCalls[t] < blockCalls[t]
    /\ unblockCalls' = [unblockCalls EXCEPT ![t] = @ + 1]
    /\ unblockedQueue' = Append(unblockedQueue, [task |-> t, hint |-> UnblockHint])
    /\ UNCHANGED <<bstate, blockCalls, blockReturns, resumeToken>>
    /\ UNCHANGED nonBlockVars

\* A worker gets the unblocked task from the scheduler and resumes its
\* thread: a suspended thread continues, one that is still blocking finds
\* the resume when it suspends.
ResumeUnblocked ==
    /\ unblockedQueue # <<>>
    /\ unblockedQueue' = Tail(unblockedQueue)
    /\ \E t \in {Head(unblockedQueue).task} :
          IF bstate[t] = "suspended"
          THEN /\ bstate' = [bstate EXCEPT ![t] = "running"]
               /\ blockReturns' = [blockReturns EXCEPT ![t] = @ + 1]
               /\ UNCHANGED resumeToken
          ELSE /\ resumeToken' = [resumeToken EXCEPT ![t] = TRUE]
               /\ UNCHANGED <<bstate, blockReturns>>
    /\ UNCHANGED <<blockCalls, unblockCalls>>
    /\ UNCHANGED nonBlockVars

BlockNext ==
    \/ \E t \in BlockTasks : nanos6_block_current_task(t)
    \/ \E t \in BlockTasks : TaskBlocking_taskBlocks(t)
    \/ \E t \in BlockTasks : nanos6_unblock_task(t)
    \/ ResumeUnblocked

SpecBlockInit ==
    CoreQuiet /\ SpawnInit /\ MessengerQuiet /\ BlockInit /\ ReleaseQuiet /\ NumaQuiet
    /\ FragInit
    /\ LateQuiet

SpecBlock == SpecBlockInit /\ [][BlockNext]_vars

\* The entries of the unblocked queue that are for task t.
QueuedFor(t) == {i \in 1 .. Len(unblockedQueue) : unblockedQueue[i].task = t}

\* C26: a task that blocked itself continues only after nanos6_unblock_task
\* has been called for it, and each call adds the task to the scheduler
\* exactly once, with the unblocked hint, also when it comes while the
\* task is still blocking.
BlockedContinuesAfterUnblock ==
    /\ [](\A t \in BlockTasks :
            /\ blockReturns[t] <= unblockCalls[t]
            /\ bstate[t] = "running" => blockReturns[t] = blockCalls[t]
            /\ \A i \in QueuedFor(t) : unblockedQueue[i].hint = "UNBLOCKED_TASK_HINT")
    /\ [][\A t \in BlockTasks :
             nanos6_unblock_task(t) =>
                 /\ unblockedQueue' =
                       Append(unblockedQueue, [task |-> t, hint |-> "UNBLOCKED_TASK_HINT"])
                 /\ bstate' = bstate]_vars

\* A task was unblocked while it was still blocking, found the resume when
\* it suspended and has returned from the block.
UnblockedWhileBlocking ==
    \E t \in BlockTasks :
        /\ bstate[t] = "running"
        /\ blockCalls[t] = 1 /\ unblockCalls[t] = 1 /\ blockReturns[t] = 1
        /\ \E u \in BlockTasks : u # t /\ bstate[u] = "blocking" /\ resumeToken[u]

(***************************************************************************)
(* The data release step of a remote task, on the node that runs it.       *)
(***************************************************************************)

\* ClusterDataReleaseStep::checkDataRelease, for an access of a remote task
\* that is not a taskwait fragment.
ClusterDataReleaseStep_checkDataRelease(access) ==
    /\ ~access.hasSubaccesses
    /\ rtaskFinished
    /\ access.readSatisfied /\ access.writeSatisfied
    /\ access.complete
    /\ ~access.hasNext
    /\ ~rmustWait

\* A mutant: the release is sent whatever the location.
SendsReleaseAlways(location) == TRUE

\* ClusterDataReleaseStep::releaseRegion: the test of the location.
SendsRelease(location) == location # "nullptr"

\* ClusterDataReleaseStep::releaseRegion.
ClusterDataReleaseStep_releaseRegion(r, location) ==
    /\ releaseMessages' =
          IF SendsRelease(location)
          THEN [releaseMessages EXCEPT ![r] = @ + 1]
          ELSE releaseMessages
    /\ bytesToRelease' = bytesToRelease - rsize[r]
    /\ rdeleted' = (bytesToRelease - rsize[r] = 0)

\* Satisfiability reaches the access of the remote task.
ReleaseAccessSatisfied(r, read, write) ==
    /\ read \/ write
    /\ read => ~raccess[r].readSatisfied
    /\ write => ~raccess[r].writeSatisfied
    /\ raccess' = [raccess EXCEPT ![r].readSatisfied = @ \/ read,
                                  ![r].writeSatisfied = @ \/ write]
    /\ UNCHANGED <<rsize, rtaskFinished, rmustWait, rreleased, releaseMessages,
                   bytesToRelease, rdeleted>>
    /\ UNCHANGED nonReleaseVars

\* A later task of the namespace accesses the region: the access of the
\* remote task gets a next access on this node.
ReleaseAccessLinked(r) ==
    /\ ~raccess[r].hasNext /\ ~raccess[r].complete
    /\ raccess' = [raccess EXCEPT ![r].hasNext = TRUE]
    /\ UNCHANGED <<rsize, rtaskFinished, rmustWait, rreleased, releaseMessages,
                   bytesToRelease, rdeleted>>
    /\ UNCHANGED nonReleaseVars

\* The body of the remote task ends: its accesses without subaccesses are
\* complete.
ReleaseTaskFinishes ==
    /\ ~rtaskFinished
    /\ rtaskFinished' = TRUE
    /\ raccess' = [r \in ReleaseRegions |->
          [raccess[r] EXCEPT !.complete = ~raccess[r].hasSubaccesses]]
    /\ UNCHANGED <<rsize, rmustWait, rreleased, releaseMessages, bytesToRelease, rdeleted>>
    /\ UNCHANGED nonReleaseVars

\* The children of the remote task have finished: nothing delays its
\* release, and the accesses its children had are complete.
ReleaseChildrenFinish ==
    /\ rtaskFinished
    /\ rmustWait \/ \E r \in ReleaseRegions : raccess[r].hasSubaccesses
    /\ rmustWait' = FALSE
    /\ raccess' = [r \in ReleaseRegions |->
          [raccess[r] EXCEPT !.complete = TRUE, !.hasSubaccesses = FALSE]]
    /\ UNCHANGED <<rsize, rtaskFinished, rreleased, releaseMessages, bytesToRelease,
                   rdeleted>>
    /\ UNCHANGED nonReleaseVars

\* The dependency system releases to the offloader an access of which
\* checkDataRelease says that it releases, once.
ReleaseToOffloader(r) ==
    /\ rreleased[r] = "no"
    /\ ClusterDataReleaseStep_checkDataRelease(raccess[r])
    /\ ClusterDataReleaseStep_releaseRegion(r, "location")
    /\ rreleased' = [rreleased EXCEPT ![r] = "offloader"]
    /\ UNCHANGED <<raccess, rsize, rtaskFinished, rmustWait>>
    /\ UNCHANGED nonReleaseVars

\* The dependency system propagates a complete access to its next access
\* on this node: the region is released with no location, once.
ReleaseInNamespace(r) ==
    /\ rreleased[r] = "no"
    /\ raccess[r].hasNext /\ raccess[r].complete
    /\ raccess[r].readSatisfied /\ raccess[r].writeSatisfied
    /\ ClusterDataReleaseStep_releaseRegion(r, "nullptr")
    /\ rreleased' = [rreleased EXCEPT ![r] = "namespace"]
    /\ UNCHANGED <<raccess, rsize, rtaskFinished, rmustWait>>
    /\ UNCHANGED nonReleaseVars

DataReleaseNext ==
    \/ \E r \in ReleaseRegions, read, write \in BOOLEAN : ReleaseAccessSatisfied(r, read, write)
    \/ \E r \in ReleaseRegions : ReleaseAccessLinked(r)
    \/ ReleaseTaskFinishes
    \/ ReleaseChildrenFinish
    \/ \E r \in ReleaseRegions : ReleaseToOffloader(r)
    \/ \E r \in ReleaseRegions : ReleaseInNamespace(r)

SpecDataReleaseInit ==
    CoreQuiet /\ SpawnInit /\ MessengerQuiet /\ BlockInit /\ ReleaseInit /\ NumaQuiet
    /\ FragInit
    /\ LateQuiet

SpecDataRelease == SpecDataReleaseInit /\ [][DataReleaseNext]_vars

\* The regions that have not been released.
Unreleased == {r \in ReleaseRegions : rreleased[r] = "no"}

\* C28: a region of a remote task that is released to the offloader sends
\* exactly one RemoteAccessRelease message; a region propagated inside the
\* namespace of the node, released with no location, sends none.
OneRemoteAccessReleasePerRegion ==
    /\ \A r \in ReleaseRegions :
          /\ rreleased[r] = "offloader" => releaseMessages[r] = 1
          /\ rreleased[r] = "namespace" => releaseMessages[r] = 0
          /\ rreleased[r] = "no" => releaseMessages[r] = 0
    /\ rdeleted <=> Unreleased = {}
    /\ bytesToRelease >= 0

\* One region went to the offloader and the other stayed in the namespace;
\* the step is gone.
ReleasedBothWays ==
    /\ \E r, q \in ReleaseRegions : rreleased[r] = "offloader" /\ rreleased[q] = "namespace"
    /\ rdeleted

(***************************************************************************)
(* The NUMA bitmasks.                                                      *)
(***************************************************************************)

\* NUMAManager::setWildcard: a wildcard that is none of the three leaves
\* the bitmask as it is, with a warning.
NUMAManager_setWildcard(wildcard) ==
    /\ lastWildcard' = wildcard
    /\ IF wildcard = "NUMA_ALL"
       THEN bitmask' = bitmaskNumaAll /\ numaDiagnostic' = "none"
       ELSE IF wildcard = "NUMA_ALL_ACTIVE"
       THEN bitmask' = bitmaskNumaAllActive /\ numaDiagnostic' = "none"
       ELSE IF wildcard = "NUMA_ANY_ACTIVE"
       THEN bitmask' = bitmaskNumaAnyActive /\ numaDiagnostic' = "none"
       ELSE bitmask' = bitmask /\ numaDiagnostic' = "warning"
    /\ UNCHANGED <<bitmaskNumaAll, bitmaskNumaAllActive, bitmaskNumaAnyActive>>
    /\ UNCHANGED nonNumaVars

\* NUMAManager::setBit
NUMAManager_setBit(bitIndex) ==
    /\ bitmask' = enableBit(bitmask, bitIndex)
    /\ UNCHANGED <<bitmaskNumaAll, bitmaskNumaAllActive, bitmaskNumaAnyActive,
                   lastWildcard, numaDiagnostic>>
    /\ UNCHANGED nonNumaVars

\* NUMAManager::clearBit
NUMAManager_clearBit(bitIndex) ==
    /\ bitmask' = disableBit(bitmask, bitIndex)
    /\ UNCHANGED <<bitmaskNumaAll, bitmaskNumaAllActive, bitmaskNumaAnyActive,
                   lastWildcard, numaDiagnostic>>
    /\ UNCHANGED nonNumaVars

NumaNext ==
    \/ \E wildcard \in Wildcards : NUMAManager_setWildcard(wildcard)
    \/ \E bitIndex \in NumaNodes : NUMAManager_setBit(bitIndex)
    \/ \E bitIndex \in NumaNodes : NUMAManager_clearBit(bitIndex)

SpecNumaInit ==
    CoreQuiet /\ SpawnInit /\ MessengerQuiet /\ BlockInit /\ ReleaseQuiet /\ NumaInit
    /\ FragInit
    /\ LateQuiet

SpecNuma == SpecNumaInit /\ [][NumaNext]_vars

\* C30: a wildcard that is none of the valid wildcards is a fatal error:
\* the runtime terminates with a diagnostic.
InvalidWildcardIsFatal ==
    lastWildcard \notin {"NUMA_ALL", "NUMA_ALL_ACTIVE", "NUMA_ANY_ACTIVE"} =>
        numaDiagnostic = "fatal"

(***************************************************************************)
(* The fragmentation of the accesses registered in one scope.              *)
(***************************************************************************)

FragRegions == {[start |-> a, end |-> b] : a \in Addresses, b \in Addresses}

RegionBytes(region) == region.start .. (region.end - 1)

FragMax(a, b) == IF a >= b THEN a ELSE b

FragMin(a, b) == IF a <= b THEN a ELSE b

\* The entries of the bottom map that a region overlaps.
Overlapping(region) ==
    {entry \in bottomMap : entry.start < region.end /\ region.start < entry.end}

\* The part of an entry that is in the region.
Intersection(entry, region) ==
    [start |-> FragMax(entry.start, region.start), end |-> FragMin(entry.end, region.end)]

\* The parts of an entry that are not in the region.
Complements(entry, region) ==
    (IF entry.start < region.start
     THEN {[start |-> entry.start, end |-> region.start]} ELSE {})
    \cup (IF region.end < entry.end
          THEN {[start |-> region.end, end |-> entry.end]} ELSE {})

\* The bytes of the scope that have an access.
CoveredBytes == UNION {RegionBytes(entry) : entry \in bottomMap}

\* A mutant: the parts of a region that no access covers get no fragment.
UncoveredNone(region) == {}

\* The parts of a region that no access covers yet, each as long as it
\* can be.
Uncovered(region) ==
    {piece \in FragRegions :
        /\ piece.start < piece.end
        /\ RegionBytes(piece) \subseteq RegionBytes(region) \ CoveredBytes
        /\ piece.start = region.start \/ (piece.start - 1) \in CoveredBytes
        /\ piece.end = region.end \/ piece.end \in CoveredBytes}

\* The fragments of an entry once a region has been registered over it.
SplitBy(entry, region) == {Intersection(entry, region)} \cup Complements(entry, region)

\* The registration of access a with a region: every access the region
\* overlaps in part is split into the intersection and the complements;
\* the new access has a fragment for every intersection and for every part
\* no access covered, and is the last access of the bytes of its region.
registerTaskDataAccess(a, region) ==
    /\ accessFragments[a] = {}
    /\ \A b \in FragAccesses : b < a => accessFragments[b] # {}
    /\ region.start < region.end
    /\ accessRegion' = [accessRegion EXCEPT ![a] = region]
    /\ accessFragments' = [b \in FragAccesses |->
          IF b = a
          THEN {Intersection(entry, region) : entry \in Overlapping(region)}
               \cup Uncovered(region)
          ELSE (accessFragments[b]
                \ {[start |-> entry.start, end |-> entry.end] :
                      entry \in {e \in Overlapping(region) : e.access = b}})
               \cup UNION {SplitBy(entry, region) :
                      entry \in {e \in Overlapping(region) : e.access = b}}]
    /\ bottomMap' =
          (bottomMap \ Overlapping(region))
          \cup UNION {{[start |-> piece.start, end |-> piece.end, access |-> entry.access] :
                          piece \in Complements(entry, region)} :
                      entry \in Overlapping(region)}
          \cup {[start |-> piece.start, end |-> piece.end, access |-> a] :
                  piece \in {Intersection(entry, region) : entry \in Overlapping(region)}
                            \cup Uncovered(region)}
    /\ UNCHANGED nonFragVars

FragNext == \E a \in FragAccesses, region \in FragRegions : registerTaskDataAccess(a, region)

SpecFragInit ==
    CoreQuiet /\ SpawnInit /\ MessengerQuiet /\ BlockInit /\ ReleaseQuiet /\ NumaQuiet
    /\ FragInit
    /\ LateQuiet

SpecFrag == SpecFragInit /\ [][FragNext]_vars

\* C29: the fragments of an access cover the region it was registered
\* with, exactly: no byte of the region is in no fragment, no fragment has
\* a byte outside the region, and no byte is in two fragments.
FragmentsCoverRegion ==
    \A a \in FragAccesses :
        /\ UNION {RegionBytes(f) : f \in accessFragments[a]} = RegionBytes(accessRegion[a])
        /\ \A f \in accessFragments[a] : f.start < f.end
        /\ \A f, g \in accessFragments[a] :
              f # g => RegionBytes(f) \cap RegionBytes(g) = {}

\* An access was registered over a part of an earlier one and over bytes
\* no access had: both are in more than one fragment.
SplitOldAndNew ==
    \E a, b \in FragAccesses :
        /\ a < b
        /\ Cardinality(accessFragments[a]) >= 2
        /\ Cardinality(accessFragments[b]) >= 2
        /\ \E f \in accessFragments[b] :
              RegionBytes(f) \cap RegionBytes(accessRegion[a]) = {}

(***************************************************************************)
(* The node namespace: the task that takes TaskNew messages, the callback  *)
(* counter shared with the remote tasks, and the shutdown of the node.     *)
(***************************************************************************)

EarlyQuiet ==
    /\ CoreQuiet /\ SpawnInit /\ MessengerQuiet /\ BlockInit /\ ReleaseQuiet
    /\ NumaQuiet /\ FragInit

\* ClusterShutdownCallback::increment and decrement through _singleton: on
\* a deleted namespace the call uses freed memory, which is recorded.
UseCounter(delta) ==
    /\ nsCounter' = nsCounter + delta
    /\ nsTouchedDeleted' = (nsTouchedDeleted \/ nsSingleton = "deleted")

\* NodeNamespace::body: the namespace task starts to run.
NodeNamespace_body ==
    /\ nsBodyPc = "submitted"
    /\ nsBodyPc' = "loop"
    /\ nsBodyHasStarted' = TRUE
    /\ UNCHANGED <<nsSingleton, nsMustShutdown, nsCounter, nsQueue, nsRemoteTasks,
                   nsArrivals, nsDeallocPc, nsTouchedDeleted>>
    /\ UNCHANGED nonNsVars

\* NodeNamespace::enqueueTaskMessage: a TaskNew message of the offloader,
\* which sends its last one before the message that ends the run.
NodeNamespace_enqueueTaskMessage ==
    /\ ~nsMustShutdown
    /\ nsArrivals < MaxRemoteTasks
    /\ nsArrivals' = nsArrivals + 1
    /\ nsQueue' = nsQueue + 1
    /\ UNCHANGED <<nsSingleton, nsMustShutdown, nsBodyHasStarted, nsCounter,
                   nsRemoteTasks, nsBodyPc, nsDeallocPc, nsTouchedDeleted>>
    /\ UNCHANGED nonNsVars

\* The loop of the body takes one message and creates the remote task,
\* which holds one count of the callback (callbackIncrement).
NodeNamespace_bodyPrivate ==
    /\ nsBodyPc = "loop"
    /\ nsQueue > 0
    /\ nsQueue' = nsQueue - 1
    /\ nsRemoteTasks' = nsRemoteTasks + 1
    /\ UseCounter(1)
    /\ UNCHANGED <<nsSingleton, nsMustShutdown, nsBodyHasStarted, nsArrivals, nsBodyPc,
                   nsDeallocPc>>
    /\ UNCHANGED nonNsVars

\* TaskOffloading::remoteTaskCleanup: a remote task is destroyed and gives
\* its count back (callbackDecrement).
TaskOffloading_remoteTaskCleanup ==
    /\ nsRemoteTasks > 0
    /\ nsRemoteTasks' = nsRemoteTasks - 1
    /\ UseCounter(-1)
    /\ UNCHANGED <<nsSingleton, nsMustShutdown, nsBodyHasStarted, nsQueue, nsArrivals,
                   nsBodyPc, nsDeallocPc>>
    /\ UNCHANGED nonNsVars

\* NodeNamespace::notifyShutdown, called by MessageSysFinish::handleMessage
\* when the namespace is enabled.
NodeNamespace_notifyShutdown ==
    /\ nsMustShutdown' = TRUE
    /\ UNCHANGED <<nsSingleton, nsBodyHasStarted, nsCounter, nsQueue, nsRemoteTasks,
                   nsArrivals, nsBodyPc, nsDeallocPc, nsTouchedDeleted>>
    /\ UNCHANGED nonNsVars

NodeNamespace_isEnabled == nsSingleton = "live"

MessageSysFinish_handleMessage ==
    /\ NodeNamespace_isEnabled
    /\ ~nsMustShutdown
    /\ NodeNamespace_notifyShutdown

\* The loop of the body ends: the queue is empty and the node shuts down.
NodeNamespace_bodyReturns ==
    /\ nsBodyPc = "loop"
    /\ nsQueue = 0
    /\ nsMustShutdown
    /\ nsBodyPc' = "returned"
    /\ UNCHANGED <<nsSingleton, nsMustShutdown, nsBodyHasStarted, nsCounter, nsQueue,
                   nsRemoteTasks, nsArrivals, nsDeallocPc, nsTouchedDeleted>>
    /\ UNCHANGED nonNsVars

\* The namespace task is destroyed and gives back the count it held since
\* the constructor (callbackDecrement).
NodeNamespace_callbackDecrement ==
    /\ nsBodyPc = "returned"
    /\ nsBodyPc' = "destroyed"
    /\ UseCounter(-1)
    /\ UNCHANGED <<nsSingleton, nsMustShutdown, nsBodyHasStarted, nsQueue,
                   nsRemoteTasks, nsArrivals, nsDeallocPc>>
    /\ UNCHANGED nonNsVars

\* NodeNamespace::deallocate is entered, after the shutdown was notified.
NodeNamespace_deallocate ==
    /\ nsDeallocPc = "idle"
    /\ nsMustShutdown
    /\ nsDeallocPc' = "waitBody"
    /\ UNCHANGED <<nsSingleton, nsMustShutdown, nsBodyHasStarted, nsCounter, nsQueue,
                   nsRemoteTasks, nsArrivals, nsBodyPc, nsTouchedDeleted>>
    /\ UNCHANGED nonNsVars

\* while (!_bodyHasStarted) sleep(1);
DeallocateLeavesBodyLoop ==
    /\ nsDeallocPc = "waitBody"
    /\ nsBodyHasStarted
    /\ nsDeallocPc' = "waitCounter"
    /\ UNCHANGED <<nsSingleton, nsMustShutdown, nsBodyHasStarted, nsCounter, nsQueue,
                   nsRemoteTasks, nsArrivals, nsBodyPc, nsTouchedDeleted>>
    /\ UNCHANGED nonNsVars

CounterIsZeroAlways(counter) == TRUE

\* The exit of while (_singleton->_callback.getCounterValue() > 0) sleep(1);
CounterIsZero(counter) == ~(counter > 0)

\* delete _singleton; _singleton = nullptr;
DeallocateDeletes ==
    /\ nsDeallocPc = "waitCounter"
    /\ CounterIsZero(nsCounter)
    /\ nsDeallocPc' = "done"
    /\ nsSingleton' = "deleted"
    /\ UNCHANGED <<nsMustShutdown, nsBodyHasStarted, nsCounter, nsQueue, nsRemoteTasks,
                   nsArrivals, nsBodyPc, nsTouchedDeleted>>
    /\ UNCHANGED nonNsVars

NamespaceNext ==
    \/ NodeNamespace_body
    \/ NodeNamespace_enqueueTaskMessage
    \/ NodeNamespace_bodyPrivate
    \/ TaskOffloading_remoteTaskCleanup
    \/ MessageSysFinish_handleMessage
    \/ NodeNamespace_bodyReturns
    \/ NodeNamespace_callbackDecrement
    \/ NodeNamespace_deallocate
    \/ DeallocateLeavesBodyLoop
    \/ DeallocateDeletes

\* The thread in deallocate is never stopped for good: each of its two
\* loops looks at its condition again after every sleep(1).
NamespaceFairness ==
    /\ WF_vars(DeallocateLeavesBodyLoop)
    /\ WF_vars(DeallocateDeletes)

SpecNamespaceInit ==
    EarlyQuiet /\ NamespaceInit /\ CPUManagerQuiet /\ DirectoryInit /\ DependencyDataInit
    /\ PendingTransfersInit

SpecNamespace == SpecNamespaceInit /\ [][NamespaceNext]_vars /\ NamespaceFairness

IdleIndexes == {v \in VirtualCPUs : mgrIdleCPUs[v]}

\* size_t arithmetic of the counter.
SizeT(n) == n % (2 ^ SizeBits)

\* The bits of the given indexes are cleared and the counter is decreased
\* by their number; the caller resumes the CPUs it was given.
HandOut(ids) ==
    /\ mgrIdleCPUs' = [v \in VirtualCPUs |-> mgrIdleCPUs[v] /\ v \notin ids]
    /\ mgrNumIdleCPUs' = SizeT(mgrNumIdleCPUs - Cardinality(ids))
    /\ mgrToResume' = (mgrToResume \cup ids)

\* cpuBecomesIdle, called by the worker that runs on the CPU, which then
\* sleeps; with work available nothing is marked.
DefaultCPUManagerImplementation_cpuBecomesIdle(cpu, hasWork) ==
    /\ cpu \notin mgrSuspended
    /\ IF hasWork
       THEN UNCHANGED <<mgrIdleCPUs, mgrNumIdleCPUs, mgrSuspended>>
       ELSE /\ mgrIdleCPUs' = [mgrIdleCPUs EXCEPT ![cpu] = TRUE]
            /\ mgrNumIdleCPUs' = SizeT(mgrNumIdleCPUs + 1)
            /\ mgrSuspended' = (mgrSuspended \cup {cpu})
    /\ UNCHANGED <<mgrSystemCPUId, mgrGroupId, mgrToResume, mgrForced>>
    /\ UNCHANGED nonMgrVars

DefaultCPUManagerImplementation_getIdleCPU ==
    /\ IdleIndexes # {}
    /\ HandOut({v \in IdleIndexes : \A u \in IdleIndexes : v <= u})
    /\ UNCHANGED <<mgrSystemCPUId, mgrGroupId, mgrSuspended, mgrForced>>
    /\ UNCHANGED nonMgrVars

\* getIdleCPUs: the first numCPUs idle CPUs, or all of them if fewer.
DefaultCPUManagerImplementation_getIdleCPUs(numCPUs) ==
    /\ IdleIndexes # {}
    /\ HandOut({v \in IdleIndexes : Cardinality({u \in IdleIndexes : u < v}) < numCPUs})
    /\ UNCHANGED <<mgrSystemCPUId, mgrGroupId, mgrSuspended, mgrForced>>
    /\ UNCHANGED nonMgrVars

\* getIdleCollaborators: every idle CPU of the group of the given CPU.
DefaultCPUManagerImplementation_getIdleCollaborators(cpu) ==
    /\ \E v \in IdleIndexes : mgrGroupId[v] = mgrGroupId[cpu]
    /\ HandOut({v \in IdleIndexes : mgrGroupId[v] = mgrGroupId[cpu]})
    /\ UNCHANGED <<mgrSystemCPUId, mgrGroupId, mgrSuspended, mgrForced>>
    /\ UNCHANGED nonMgrVars

\* The CPU of this process with the given system id is marked idle.
NamedIsIdle(systemCPUId) ==
    \E v \in VirtualCPUs : mgrSystemCPUId[v] = systemCPUId /\ mgrIdleCPUs[v]

\* forcefullyResumeCPU within the bitmap: _idleCPUs and _cpus are indexed
\* with the system id.
ForcefullyResumeInRange(systemCPUId) ==
    /\ systemCPUId \in VirtualCPUs
    /\ IF mgrIdleCPUs[systemCPUId]
       THEN HandOut({systemCPUId})
       ELSE UNCHANGED <<mgrIdleCPUs, mgrNumIdleCPUs, mgrToResume>>
    /\ mgrForced' = [id |-> systemCPUId, named |-> NamedIsIdle(systemCPUId),
                     resumed |-> IF mgrIdleCPUs[systemCPUId] THEN {systemCPUId} ELSE {},
                     wild |-> FALSE]

\* forcefullyResumeCPU past the end of the bitmap and of _cpus: the bit
\* read is whatever the memory holds; when it reads as set, it is cleared
\* where it was read, the counter is decreased and the pointer read past
\* the end of _cpus is resumed.
ForcefullyResumePastEnd(systemCPUId, bit) ==
    /\ systemCPUId \notin VirtualCPUs
    /\ mgrNumIdleCPUs' = (IF bit THEN SizeT(mgrNumIdleCPUs - 1) ELSE mgrNumIdleCPUs)
    /\ mgrForced' = [id |-> systemCPUId, named |-> NamedIsIdle(systemCPUId),
                     resumed |-> {}, wild |-> bit]
    /\ UNCHANGED <<mgrIdleCPUs, mgrToResume>>

\* forcefullyResumeCPU of a CPU of this process, named by its system id.
DefaultCPUManagerImplementation_forcefullyResumeCPU(systemCPUId) ==
    /\ \E v \in VirtualCPUs : mgrSystemCPUId[v] = systemCPUId
    /\ \/ ForcefullyResumeInRange(systemCPUId)
       \/ \E bit \in BOOLEAN : ForcefullyResumePastEnd(systemCPUId, bit)
    /\ UNCHANGED <<mgrSystemCPUId, mgrGroupId, mgrSuspended>>
    /\ UNCHANGED nonMgrVars

\* ThreadManager::resumeIdle: the worker of a CPU that was handed out runs
\* again.
ThreadManager_resumeIdle(cpu) ==
    /\ cpu \in mgrToResume
    /\ mgrToResume' = mgrToResume \ {cpu}
    /\ mgrSuspended' = mgrSuspended \ {cpu}
    /\ UNCHANGED <<mgrSystemCPUId, mgrGroupId, mgrIdleCPUs, mgrNumIdleCPUs, mgrForced>>
    /\ UNCHANGED nonMgrVars

CPUManagerNext ==
    \/ \E cpu \in VirtualCPUs, hasWork \in BOOLEAN :
          DefaultCPUManagerImplementation_cpuBecomesIdle(cpu, hasWork)
    \/ DefaultCPUManagerImplementation_getIdleCPU
    \/ \E numCPUs \in 1 .. NumAvailableCPUs :
          DefaultCPUManagerImplementation_getIdleCPUs(numCPUs)
    \/ \E cpu \in VirtualCPUs : DefaultCPUManagerImplementation_getIdleCollaborators(cpu)
    \/ \E systemCPUId \in SystemCPUIds :
          DefaultCPUManagerImplementation_forcefullyResumeCPU(systemCPUId)
    \/ \E cpu \in VirtualCPUs : ThreadManager_resumeIdle(cpu)

SpecCPUManagerInit ==
    EarlyQuiet /\ NamespaceInit /\ CPUManagerInit /\ DirectoryInit /\ DependencyDataInit
    /\ PendingTransfersInit

SpecCPUManager == SpecCPUManagerInit /\ [][CPUManagerNext]_vars

VirtualOf(systemCPUId) == CHOOSE v \in VirtualCPUs : mgrSystemCPUId[v] = systemCPUId

\* C35: the last forcefullyResumeCPU(systemCPUId) has cleared the idle
\* mark of the CPU with that system id and resumed it if that CPU was
\* marked idle, and has resumed no CPU if it was not; it has cleared the
\* mark of no other CPU and resumed no other CPU.
ForcefullyResumesNamedCPU ==
    mgrForced.id # NoSystemCPUId =>
        /\ ~mgrForced.wild
        /\ mgrForced.resumed = (IF mgrForced.named THEN {VirtualOf(mgrForced.id)} ELSE {})

(***************************************************************************)
(* The NUMA directory: alloc, allocSentinels and free keep the home node   *)
(* of every block of the tracked allocations; getHomeNode reads it.        *)
(* Tracking is enabled.                                                    *)
(***************************************************************************)

DirAddresses == 0 .. MaxDirAddress

\* BitManipulation::indexFirstEnabledBit: __builtin_ffsll(x) - 1
indexFirstEnabledBit(x) ==
    IF x = 0 THEN -1
    ELSE CHOOSE n \in NumaNodes :
             checkBit(x, n) = 1 /\ \A m \in NumaNodes : checkBit(x, m) = 1 => n <= m

\* MathSupport::closestMultiple
closestMultiple(n, multipleOf) == ((n + multipleOf - 1) \div multipleOf) * multipleOf

\* The loop of alloc and of allocSentinels: the entries it makes from
\* offset i on.
RECURSIVE DirectoryBlocks(_, _, _, _, _, _)
DirectoryBlocks(res, size, i, bitmaskCopy, allocBitmask, blockSize) ==
    IF ~(i < size) THEN {}
    ELSE LET currentNodeIndex == indexFirstEnabledBit(bitmaskCopy)
             disabled == disableBit(bitmaskCopy, currentNodeIndex)
             tmpSize == IF blockSize < size - i THEN blockSize ELSE size - i
         IN  {[start |-> res + i, size |-> tmpSize, homeNode |-> currentNodeIndex]}
                 \cup DirectoryBlocks(res, size, i + blockSize,
                                      IF disabled = 0 THEN allocBitmask ELSE disabled,
                                      allocBitmask, blockSize)

\* _directory.emplace: an entry whose key is present is not inserted.
Emplace(dir, entries) ==
    dir \cup {e \in entries : \A d \in dir : d.start # e.start}

\* Memory that mmap or malloc can return: inside the address space and not
\* part of an allocation that is live.
Unmapped(res, size) ==
    /\ res + size <= MaxDirAddress + 1
    /\ \A a \in liveAllocs : res + size <= a.ptr \/ a.ptr + a.size <= res

Track(res, size, allocBitmask, blockSize) ==
    /\ Cardinality(liveAllocs) < MaxLiveAllocs
    /\ allocations' = (allocations \cup {[ptr |-> res, size |-> size]})
    /\ directory' = Emplace(directory,
                            DirectoryBlocks(res, size, 0, allocBitmask, allocBitmask, blockSize))
    /\ liveAllocs' = (liveAllocs \cup {[ptr |-> res, size |-> size, bitmask |-> allocBitmask]})
    /\ lastHome' = [ptr |-> 0, size |-> 0, result |-> HomeNotFound]
    /\ UNCHANGED nonDirVars

\* NUMAManager::alloc: at least a page, from mmap, in blocks of whole pages.
NUMAManager_alloc(size, allocBitmask, blockSize) ==
    /\ ~(size < PageSize)
    /\ \E res \in DirAddresses :
          /\ res % PageSize = 0
          /\ Unmapped(res, size)
          /\ Track(res, size, allocBitmask,
                   IF blockSize % PageSize # 0 THEN closestMultiple(blockSize, PageSize)
                   ELSE blockSize)

\* NUMAManager::allocSentinels: less than a page comes from malloc, and the
\* blocks have the size that was asked for.
NUMAManager_allocSentinels(size, allocBitmask, blockSize) ==
    \E res \in DirAddresses :
        /\ ~(size < PageSize) => res % PageSize = 0
        /\ Unmapped(res, size)
        /\ Track(res, size, allocBitmask, blockSize)

EraseEndFirstBlock(ptr, size) == ptr + 1

\* The key free hands to lower_bound: the first address after the allocation.
EraseEnd(ptr, size) == ptr + size

\* NUMAManager::free of memory that alloc or allocSentinels returned.
NUMAManager_free(ptr) ==
    \E allocIt \in allocations :
        /\ allocIt.ptr = ptr
        /\ allocations' = allocations \ {allocIt}
        /\ directory' = {d \in directory :
                            ~(ptr <= d.start /\ d.start < EraseEnd(ptr, allocIt.size))}
        /\ liveAllocs' = {a \in liveAllocs : a.ptr # ptr}
        /\ lastHome' = [ptr |-> 0, size |-> 0, result |-> HomeNotFound]
        /\ UNCHANGED nonDirVars

\* NUMAManager::getContainedBytes
getContainedBytes(ptr1, size1, ptr2, size2) ==
    LET start == IF ptr1 > ptr2 THEN ptr1 ELSE ptr2
        end == IF ptr1 + size1 < ptr2 + size2 THEN ptr1 + size1 ELSE ptr2 + size2
    IN  IF start < end THEN end - start ELSE 0

DirectoryKeys == {d.start : d \in directory}

DirectoryEntry(key) == CHOOSE d \in directory : d.start = key

\* _directory.lower_bound: the first key not before ptr, or end().
lower_bound(ptr) ==
    IF \E k \in DirectoryKeys : k >= ptr
    THEN CHOOSE k \in DirectoryKeys : k >= ptr /\ \A j \in DirectoryKeys : j >= ptr => k <= j
    ELSE DirEnd

\* it++ and it-- of the iterator of the directory.
NextKey(it) == lower_bound(it + 1)

PrevKey(it) ==
    LET before == {k \in DirectoryKeys : it = DirEnd \/ k < it}
    IN  CHOOSE k \in before : \A j \in before : j <= k

DirectoryBegin == lower_bound(0)

\* The do-while loop of getHomeNode, entered with the iterator at it.
RECURSIVE HomeNodeLoop(_, _, _, _, _, _)
HomeNodeLoop(it, ptr, size, bytesInNUMA, idMax, foundBytes) ==
    LET entry == DirectoryEntry(it)
        containedBytes == getContainedBytes(entry.start, entry.size, ptr, size)
        homeNode == entry.homeNode
        counted == [bytesInNUMA EXCEPT ![homeNode] = @ + containedBytes]
        newMax == IF counted[homeNode] > counted[idMax] THEN homeNode ELSE idMax
    IN  IF containedBytes = 0 THEN idMax
        ELSE IF counted[homeNode] >= size \div 2 THEN homeNode
        ELSE IF foundBytes + containedBytes # size /\ NextKey(it) # DirEnd
             THEN HomeNodeLoop(NextKey(it), ptr, size, counted, newMax,
                               foundBytes + containedBytes)
             ELSE newMax

\* The entry getHomeNode starts from: lower_bound(ptr), or the entry before
\* it when that one starts after ptr; DirEnd stands for the early return.
HomeNodeStart(ptr) ==
    LET it == lower_bound(ptr)
    IN  IF it = DirEnd \/ ptr < it
        THEN IF it = DirectoryBegin THEN DirEnd ELSE PrevKey(it)
        ELSE it

\* NUMAManager::getHomeNode
getHomeNode(ptr, size) ==
    LET it == HomeNodeStart(ptr)
    IN  IF it = DirEnd THEN HomeNotFound
        ELSE IF getContainedBytes(ptr, size, it, DirectoryEntry(it).size) = 0
             THEN HomeNotFound
        ELSE HomeNodeLoop(it, ptr, size, [n \in NumaNodes |-> 0], 0, 0)

NUMAManager_getHomeNode(ptr, size) ==
    /\ lastHome' = [ptr |-> ptr, size |-> size, result |-> getHomeNode(ptr, size)]
    /\ UNCHANGED <<directory, allocations, liveAllocs>>
    /\ UNCHANGED nonDirVars

DirectoryNext ==
    \/ \E size \in 1 .. MaxAllocSize, allocBitmask \in Bitmasks \ {0},
          blockSize \in 1 .. MaxBlockSize :
          \/ NUMAManager_alloc(size, allocBitmask, blockSize)
          \/ NUMAManager_allocSentinels(size, allocBitmask, blockSize)
    \/ \E ptr \in DirAddresses : NUMAManager_free(ptr)
    \/ \E ptr \in DirAddresses, size \in 1 .. MaxAllocSize : NUMAManager_getHomeNode(ptr, size)

SpecDirectoryInit ==
    EarlyQuiet /\ NamespaceInit /\ CPUManagerQuiet /\ DirectoryInit /\ DependencyDataInit
    /\ PendingTransfersInit

SpecDirectory == SpecDirectoryInit /\ [][DirectoryNext]_vars

\* The bytes of [ptr, ptr + size) that the directory gives to a node.
BytesOn(node, ptr, size) ==
    Cardinality({b \in ptr .. (ptr + size - 1) :
                    \E d \in directory :
                        d.homeNode = node /\ d.start <= b /\ b < d.start + d.size})

\* C36: the result of getHomeNode(ptr, size) is a node that holds at least
\* as many bytes of [ptr, ptr + size) as every other node, and it is the
\* not-found value only when no byte of the range is in an entry.
HomeNodeHoldsMostBytes ==
    lastHome.size > 0 =>
        IF \E n \in NumaNodes : BytesOn(n, lastHome.ptr, lastHome.size) > 0
        THEN /\ lastHome.result \in NumaNodes
             /\ \A n \in NumaNodes :
                   BytesOn(n, lastHome.ptr, lastHome.size)
                       <= BytesOn(lastHome.result, lastHome.ptr, lastHome.size)
        ELSE lastHome.result = HomeNotFound

\* The entries whose key is inside an allocation, and the set bits of its
\* bitmask.
EntriesOf(a) == {d \in directory : a.ptr <= d.start /\ d.start < a.ptr + a.size}

SetBits(b) == {n \in NumaNodes : checkBit(b, n) = 1}

\* C37: the allocation table holds the live allocations; every entry of
\* the directory is a block of a live allocation; the blocks of a live
\* allocation follow one another from its first byte to its last without
\* overlap, and the k-th block has the k-th set bit of the bitmask as home
\* node, starting again at the first after the last; with nothing live
\* the directory and the allocation table are empty.
DirectoryHoldsLiveBlocks ==
    /\ allocations = {[ptr |-> a.ptr, size |-> a.size] : a \in liveAllocs}
    /\ directory = UNION {EntriesOf(a) : a \in liveAllocs}
    /\ \A a \in liveAllocs :
          /\ \A d \in EntriesOf(a) :
                LET earlier == {e \in EntriesOf(a) : e.start < d.start}
                    k == Cardinality(earlier) % Cardinality(SetBits(a.bitmask))
                IN  /\ d.size > 0
                    /\ d.start + d.size <= a.ptr + a.size
                    /\ IF earlier = {} THEN d.start = a.ptr
                       ELSE \E e \in earlier : e.start + e.size = d.start
                    /\ d.homeNode \in SetBits(a.bitmask)
                    /\ Cardinality({n \in SetBits(a.bitmask) : n < d.homeNode}) = k
          /\ \E d \in EntriesOf(a) : d.start + d.size = a.ptr + a.size
    /\ liveAllocs = {} => directory = {} /\ allocations = {}

\* Two allocations of several blocks were live and one of them is freed.
FreedOneOfTwo ==
    /\ Cardinality(liveAllocs) = 1
    /\ \E a \in liveAllocs : Cardinality(EntriesOf(a)) > 1 /\ a.ptr > 0
    /\ \A d \in directory : \E a \in liveAllocs : d \in EntriesOf(a)

(***************************************************************************)
(* CPUDependencyData: the side effects the dependency engine batches for   *)
(* one CPU under the lock of the access set, and drains after it.          *)
(***************************************************************************)

\* A side effect is batched in one of the lists.
BatchSideEffect(list) ==
    /\ Len(hpDependencyData[list]) < MaxBatched
    /\ hpDependencyData' = [hpDependencyData EXCEPT ![list] = Append(@, "entry")]
    /\ UNCHANGED nonCddVars

\* The outer loop takes the first side effect of one of the lists.
DrainSideEffect(list) ==
    /\ hpDependencyData[list] # <<>>
    /\ hpDependencyData' = [hpDependencyData EXCEPT ![list] = Tail(@)]
    /\ UNCHANGED nonCddVars

\* CPUDependencyData::empty
CPUDependencyData_empty ==
    /\ hpDependencyData["_satisfiedOriginators"] = <<>>
    /\ hpDependencyData["_satisfiedCommutativeOriginators"] = <<>>
    /\ hpDependencyData["_delayedOperations"] = <<>>
    /\ hpDependencyData["_removableTasks"] = <<>>
    /\ hpDependencyData["_acquiredCommutativeScoreboardEntries"] = <<>>
    /\ hpDependencyData["_completedTaskwaits"] = <<>>

DependencyDataNext ==
    \/ \E list \in DependencyDataLists : BatchSideEffect(list)
    \/ \E list \in DependencyDataLists : DrainSideEffect(list)

SpecDependencyDataInit ==
    EarlyQuiet /\ NamespaceInit /\ CPUManagerQuiet /\ DirectoryInit /\ DependencyDataInit
    /\ PendingTransfersInit

SpecDependencyData == SpecDependencyDataInit /\ [][DependencyDataNext]_vars

\* C39: empty() is true exactly when each of the seven lists is empty.
EmptyMeansNothingBatched ==
    CPUDependencyData_empty <=> \A list \in DependencyDataLists : hpDependencyData[list] = <<>>

(***************************************************************************)
(* The pending data transfers of ClusterPollingServices and the polling   *)
(* service that tests them.                                                *)
(***************************************************************************)

NewTransfers ==
    {dt \in DataTransfers : ptState[dt] = "none" /\
        \A other \in DataTransfers : ptState[other] = "none" => dt <= other}

\* addPendingDataTransfer: push_back under the lock.
addPendingDataTransfer(dt, incoming) ==
    /\ ptRegistered
    /\ dt \in NewTransfers
    /\ ptTransfers' = Append(ptTransfers, dt)
    /\ ptState' = [ptState EXCEPT ![dt] = "pending"]
    /\ ptIncoming' = [ptIncoming EXCEPT ![dt] = incoming]
    /\ UNCHANGED <<ptDeletes, ptRegistered>>
    /\ UNCHANGED nonPtVars

\* The transport finishes the request of a transfer.
TransportCompletes(dt) ==
    /\ ptState[dt] = "pending"
    /\ ptState' = [ptState EXCEPT ![dt] = "arrived"]
    /\ UNCHANGED <<ptTransfers, ptIncoming, ptDeletes, ptRegistered>>
    /\ UNCHANGED nonPtVars

\* The predicate of remove_if, after testDataTransferCompletion has marked
\* the transfers whose request is finished: dt->isCompleted()
isCompleted(dt) == ptState[dt] = "arrived"

RECURSIVE remove_if(_)
remove_if(list) ==
    IF list = <<>> THEN <<>>
    ELSE IF isCompleted(Head(list)) THEN remove_if(Tail(list))
    ELSE <<Head(list)>> \o remove_if(Tail(list))

\* checkDataTransfers with a list that is not empty: under the lock the
\* transfers are tested, the completed ones deleted and erased.
checkDataTransfers_poll ==
    /\ ptRegistered
    /\ ~(Len(ptTransfers) = 0)
    /\ ptTransfers' = remove_if(ptTransfers)
    /\ ptDeletes' = [dt \in DataTransfers |->
                        ptDeletes[dt]
                            + Cardinality({i \in DOMAIN ptTransfers :
                                              ptTransfers[i] = dt /\ isCompleted(dt)})]
    /\ ptState' = [dt \in DataTransfers |->
                      IF \E i \in DOMAIN ptTransfers : ptTransfers[i] = dt /\ isCompleted(dt)
                      THEN "deleted" ELSE ptState[dt]]
    /\ UNCHANGED <<ptIncoming, ptRegistered>>
    /\ UNCHANGED nonPtVars

\* The runtime shuts down when its tasks are done: the data every task
\* waited for has arrived and the poll has run its callbacks, and what
\* this node sent has reached the nodes whose tasks waited for it.
ShutdownCanStart ==
    \A dt \in DataTransfers :
        /\ ptIncoming[dt] => ptState[dt] \in {"none", "deleted"}
        /\ ptState[dt] # "pending"

\* unregisterDataTransferCompletion
unregisterDataTransferCompletion ==
    /\ ptRegistered
    /\ ShutdownCanStart
    /\ ptRegistered' = FALSE
    /\ UNCHANGED <<ptTransfers, ptState, ptIncoming, ptDeletes>>
    /\ UNCHANGED nonPtVars

PendingTransfersNext ==
    \/ \E dt \in DataTransfers, incoming \in BOOLEAN : addPendingDataTransfer(dt, incoming)
    \/ \E dt \in DataTransfers : TransportCompletes(dt)
    \/ checkDataTransfers_poll
    \/ unregisterDataTransferCompletion

SpecPendingTransfersInit ==
    EarlyQuiet /\ NamespaceInit /\ CPUManagerQuiet /\ DirectoryInit /\ DependencyDataInit
    /\ PendingTransfersInit

SpecPendingTransfers == SpecPendingTransfersInit /\ [][PendingTransfersNext]_vars

\* The positions of a transfer in the list.
ListedAt(dt) == {i \in DOMAIN ptTransfers : ptTransfers[i] = dt}

\* A transfer added and not yet seen completed by a poll is in the list,
\* once; a transfer seen completed is out of the list and was deleted
\* once; a poll leaves the transfers that are not completed in their order.
PendingKeptUntilCompleted ==
    /\ [](\A dt \in DataTransfers :
             /\ ptState[dt] \in {"pending", "arrived"} =>
                   Cardinality(ListedAt(dt)) = 1 /\ ptDeletes[dt] = 0
             /\ ptState[dt] = "deleted" => ListedAt(dt) = {} /\ ptDeletes[dt] = 1
             /\ ptState[dt] = "none" => ListedAt(dt) = {} /\ ptDeletes[dt] = 0)
    /\ [][\A dt, other \in DataTransfers :
             (/\ ListedAt(dt) # {} /\ ListedAt(other) # {}
              /\ ptState'[dt] # "deleted" /\ ptState'[other] # "deleted")
                 => /\ ListedAt(dt)' # {} /\ ListedAt(other)' # {}
                    /\ \A i \in ListedAt(dt), j \in ListedAt(other),
                          k \in ListedAt(dt)', l \in ListedAt(other)' :
                          i < j => k < l]_vars

\* C40: the list keeps every transfer until a poll sees it completed, each
\* completed transfer is removed and deleted exactly once, the others keep
\* their order, and the list is empty once the polling service is
\* unregistered at shutdown.
PendingListDrainedAtShutdown ==
    /\ PendingKeptUntilCompleted
    /\ [](~ptRegistered => ptTransfers = <<>>)

====
